---- MODULE Spec2Model ----
(***************************************************************************)
(* Model of the audio engine of MechanicalKeyboardApp (engine.py):         *)
(* the bounded inbound command queue, the scheduling loop (_audio_loop),   *)
(* the voice allocator (ChannelRing) and the playback channels of the      *)
(* audio backend.                                                          *)
(*                                                                         *)
(* Time is counted in ticks of 0.5 ms of time.monotonic().                 *)
(* ChannelRing.acquire runs its scan under the ring lock; channels only    *)
(* go from busy to idle while it scans, so the scan is modelled as one     *)
(* atomic step (its linearisation point).                                  *)
(***************************************************************************)
EXTENDS Integers, Sequences, FiniteSets

\* ------------------------------------------------------------------ bounds
\* Capacity of the inbound queue (_QUEUE_MAXSIZE, 128 in engine.py), scaled.
QUEUE_MAXSIZE == 2
\* cfg["engine"]["polyphony"]: number of channels of the ring.
Polyphony == 2
\* cfg["engine"]["queue_batch_max"]: commands drained per loop iteration.
BatchMax == 1
\* _UI_POLL (40 in engine.py), scaled: housekeeping every UI_POLL iterations.
UI_POLL == 2
\* Number of enqueue_play calls made in one behaviour (command ids 1..MaxCmds).
MaxCmds == 3
\* Number of enqueue_play calls in one behaviour of SpecLive.
MaxLiveCmds == 2
\* Last tick of the monotonic clock.
MaxTime == 1

\* cfg["engine"]["pool_size"]: clips built per pool.
PoolSize == 4
\* Number of reload_sounds calls and of commands in one behaviour of
\* SpecBank and SpecReload, taken together.
MaxBankOps == 3
\* Number of enqueue_play calls in one behaviour of SpecReload.
MaxReloadCmds == 1
\* Largest pool size drawn in SpecPick.
MaxPick == 4
\* Number of commands in one behaviour of SpecSelect.
MaxSelect == 4
\* Number of enqueue_play calls in one behaviour of SpecStop.
MaxStopCmds == 2
\* Number of distinct build_pool calls in one behaviour of SpecDsp.
MaxBuilds == 3
\* dsp._SOS_CACHE_MAX (256 in the source), scaled down.
SOS_CACHE_MAX == 3
\* Horizon of the clock of the input handler, in ticks of 1 ms.
MaxInputTime == 3
\* Press commands counted for one hold of a key.
MaxPresses == 2
\* input_handler._MAX_PRESSED (30 in the source), scaled down.
MAX_PRESSED == 2
\* input_handler._MAX_PRESS_TIMES (40 in the source), scaled down.
MAX_PRESS_TIMES == 3
\* The oldest[:10] entries of the memory guard, scaled down.
GUARD_DROP == 1
\* input_handler._STUCK_KEY_SECS (2.5 s in the source), scaled down to ticks.
STUCK_KEY_SECS == 1
\* input_handler._OS_REPEAT_GUARD: 1 ms, one tick.
OS_REPEAT_GUARD == 1
\* Cutoffs per step of the cache key (round(fc_norm, 7)).
KeyStep == 2
\* Resolution of a uniform draw of the generator.
DrawLevels == 3

\* -------------------------------------------------------------- constants
\* Press jitter random.uniform(0.0005, 0.0015), in ticks.
JITTER_MIN == 1
JITTER_MAX == 3
\* Pool slots.
PIDX_NORMAL   == 0
PIDX_NORMAL_F == 1
PIDX_NORMAL_R == 2
PIDX_HEAVY    == 3
PIDX_HEAVY_F  == 4
PIDX_HEAVY_R  == 5
PIDX_MOUSE    == 6
PIDX_MOUSE3   == 7
N_POOLS       == 8
\* Length of the anti-repetition window of MicroVariator.
MV_RECENT_N   == 4
\* Random draws of _pick before its deterministic fallback.
PICK_RETRIES  == 12
\* Fixed point: 1.0 is ONE, so that volumes and scales are in thousandths.
ONE == 1000
\* cfg["app"]["initial_volume"].
INITIAL_VOLUME == 500
\* presets wpm: fast_threshold_wpm, in words per minute.
WPM_THRESH == 55
\* presets wpm: ema_alpha.
EMA_ALPHA == 250
\* AudioEngine._band_rng, in words per minute.
BAND_RNG == 40
\* WpmTracker.burst_wpm: below this many samples the result is (0.0, 1.0).
BURST_MIN_SAMPLES == 8
\* _MV_VOL_LOW, _MV_VOL_HIGH: the volume jitter, in thousandths.
MV_VOL_LOW == 962
MV_VOL_HIGH == 1038
\* _MV_REL_BOOST_BASE, in thousandths.
MV_REL_BOOST_BASE == 1160
\* _REL_DUR_SHORT, _REL_DUR_LONG, in milliseconds.
REL_DUR_SHORT == 50
REL_DUR_LONG == 200
\* _REL_SCALE_MIN, _REL_SCALE_MID, _REL_SCALE_MAX, in thousandths.
REL_SCALE_MIN == 860
REL_SCALE_MID == 1000
REL_SCALE_MAX == 1160
\* vol_scale: the WPM above which a release is attenuated, and the floor of
\* the attenuation, in thousandths.
REL_ATTEN_WPM == 60
REL_ATTEN_MIN == 880
\* _do_play: the floor of the equal-power scale, in thousandths.
EQ_FLOOR == 420
\* cfg["engine"]["normalize_target"]: the peak of every pool clip, in
\* thousandths of full scale.
NORM_PEAK == 250
\* Largest active count returned by acquire in SpecGain.
MaxActive == 15
\* WpmTracker: the window (measurement_window), the sample count from which
\* the burst is measured, the keystrokes of the recent segment.
WPM_WINDOW == 15
BURST_SAMPLES == 10
BURST_RECENT == 5
\* burst_wpm: the clamp of the burst and the weight of the old factor, in
\* thousandths; the shortest span measured, in milliseconds.
BURST_MIN == 700
BURST_MAX == 1300
BURST_KEEP == 600
MIN_ELAPSED == 10
\* Number of record and burst_wpm calls in one behaviour of SpecWpm.
MaxWpmCalls == 6

\* The threads of the input layer that call enqueue_play.
Producers == {"KbListener", "ClickProcessor"}
\* Two threads using one ring directly (SpecRing).
Callers   == {"a", "b"}
Channels  == 0..(Polyphony - 1)
CmdIds    == 1..MaxCmds

\* ------------------------------------------------------------------ state
VARIABLES
    clock,          \* time.monotonic()
    queue,          \* AudioEngine._queue: sequence of PlayCommand
    wakeup,         \* AudioEngine._wakeup: threading.Event flag
    running,        \* AudioEngine._running
    active_voices,  \* AudioEngine._active_voices
    channels,       \* ChannelRing._channels: channel -> get_busy()
    steal_pos,      \* ChannelRing._steal_pos
    ppc,            \* producer -> position inside enqueue_play
    pc,             \* position of the scheduling loop thread
    now,            \* _audio_loop: now
    loop_ctr,       \* _audio_loop: _loop_ctr
    drained,        \* _audio_loop: drained
    delay_buf,      \* _audio_loop: _delay_buf
    pending,        \* _audio_loop: _pending
    ch,             \* _do_play: ch returned by acquire
    n_active,       \* _do_play: n_active returned by acquire
    cpc,            \* caller -> position (direct users of the ring)
    cch,            \* caller -> ch returned by acquire
    cn,             \* caller -> n_active returned by acquire
    next_id,        \* history: number of enqueue_play calls so far
    dropped,        \* history: ids of commands dropped on a full queue
    dispatched,     \* history: id -> number of times passed to _do_play
    play_order,     \* history (callers): playing channels, earliest started first
    ended,          \* history (callers): some playback has ended by itself
    acquires,       \* history (callers): number of acquire() calls so far
    stolen,         \* history (callers): last acquire() stole, no play since
    lost_wake,      \* history: set() ran between wait() and clear(), not yet cleared
    key_bindings,   \* AudioEngine._key_bindings
    pools,          \* AudioEngine._pools: slot -> pool (gen: the reload that built it)
    last_idx,       \* AudioEngine._last_idx
    custom_sounds,  \* AudioEngine._custom_sounds
    pack_loader,    \* AudioEngine._pack_loader (obj = FALSE: None)
    pool_lock,      \* AudioEngine._pool_lock: its holder
    mv_recent,      \* MicroVariator._recent
    rpc,            \* position of the control thread inside reload_sounds or update_volume
    reloads,        \* number of reload_sounds calls so far
    new_pools,      \* reload_sounds: new_pools
    new_custom,     \* reload_sounds: new_custom
    found,          \* history: what the running reload found on disk
    inflight,       \* history: ids of the commands in flight when the running reload began
    play_cmd,       \* _do_play: cmd
    pidx,           \* _do_play: pidx
    bias,           \* _do_play: bias
    seen,           \* history: generations one dispatch has read
    last_gen,       \* history: slot -> generation of the pool last_idx was set for
    returned,       \* history: slot -> index returned by the previous _pick
    picked,         \* history: the last selections of a run of _pick calls on one pool
    last_key_id,    \* MicroVariator._last_key_id
    volume,         \* AudioEngine._volume
    snd_volume,     \* volume of the clips: of the pools, of the custom bindings, of the soundpack
    new_vol,        \* update_volume: new_vol (NoLevel: not called yet)
    ema_wpm,        \* AudioEngine._ema_wpm, in thousandths of a word per minute
    voice,          \* _do_play: the last gain computed (its inputs, its scales, the channel volume)
    tracker,        \* WpmTracker: _times (ms), _burst_factor, the last result of burst_wpm
    mixer,          \* pygame.mixer is initialised (_init_mixer), not yet quit
    threads,        \* number of live threads running _audio_loop
    sos_cache,      \* dsp._SOS_CACHE: cache key -> filter coefficients
    builds,         \* the build_pool calls made so far, with their results
    handler         \* InputHandler: held keys, _pressed, _press_times, ...

queueVars == <<queue, wakeup, ppc, next_id, dropped>>
ringVars  == <<channels, steal_pos>>
histVars  == <<play_order, ended, acquires, stolen>>
loopVars  == <<pc, now, loop_ctr, drained, delay_buf, pending, ch, n_active,
               dispatched, lost_wake, active_voices>>
callVars  == <<cpc, cch, cn>>
bankVars  == <<pools, last_idx, custom_sounds, pack_loader, pool_lock,
               mv_recent, last_gen, returned>>
reloadVars == <<key_bindings, rpc, reloads, new_pools, new_custom, found,
                inflight>>
playVars  == <<play_cmd, pidx, bias, seen>>
volVars   == <<volume, snd_volume, new_vol>>
dynVars   == <<ema_wpm, voice, tracker>>
lifeVars  == <<mixer, threads>>
dspVars   == <<sos_cache, builds>>
mixVars   == <<picked, last_key_id, volVars, dynVars, lifeVars, dspVars,
               handler>>
soundVars == <<bankVars, reloadVars, playVars, mixVars>>
vars == <<clock, running, queueVars, ringVars, histVars, loopVars, callVars,
          soundVars>>

NoChannel == -1

\* ------------------------------------------------------------ PlayCommand
\* The (is_mouse, is_release) combinations each input thread produces:
\* on_press and on_release on the keyboard listener, clicks on the other.
InputKinds(p) ==
    IF p = "KbListener"
    THEN { [is_mouse |-> FALSE, is_release |-> FALSE],
           [is_mouse |-> FALSE, is_release |-> TRUE] }
    ELSE { [is_mouse |-> TRUE, is_release |-> FALSE] }

\* enqueue_play: press -> random jitter, release/mouse -> none.
JitterChoices(is_mouse, is_release) ==
    IF ~is_release /\ ~is_mouse THEN JITTER_MIN..JITTER_MAX ELSE {0}

PlayCommand(id, k, nb) ==
    [id |-> id, is_mouse |-> k.is_mouse, is_release |-> k.is_release,
     not_before |-> nb]

\* ------------------------------------------------------------ queue.Queue
\* Mutant: a queue built without maxsize never raises queue.Full.
put_nowait_unbounded(q, c) == [queue |-> Append(q, c), full |-> FALSE]

\* Mutant: on a full queue the oldest command is evicted for the new one.
put_nowait_evict(q, c) ==
    IF Len(q) >= QUEUE_MAXSIZE
    THEN [queue |-> Append(Tail(q), c), full |-> FALSE]
    ELSE [queue |-> Append(q, c), full |-> FALSE]

\* put_nowait on a Queue(maxsize): appends, or raises queue.Full.
put_nowait(q, c) ==
    IF Len(q) >= QUEUE_MAXSIZE
    THEN [queue |-> q, full |-> TRUE]
    ELSE [queue |-> Append(q, c), full |-> FALSE]

\* ------------------------------------------------------------ ChannelRing
RECURSIVE scan(_, _, _, _)
\* The for loop of acquire: counts busy channels, keeps the first idle one.
scan(b, i, active, free_ch) ==
    IF i = Polyphony THEN [active |-> active, free_ch |-> free_ch]
    ELSE IF b[i] THEN scan(b, i + 1, active + 1, free_ch)
    ELSE IF free_ch = NoChannel THEN scan(b, i + 1, active, i)
    ELSE scan(b, i + 1, active, free_ch)

\* Mutant: the free path counts the returned channel as active.
acquire_counts_self(b, sp) ==
    LET s == scan(b, 0, 0, NoChannel) IN
    IF s.free_ch # NoChannel
    THEN [ch |-> s.free_ch, n_active |-> s.active + 1,
          channels |-> b, steal_pos |-> sp, stolen |-> FALSE]
    ELSE [ch |-> sp, n_active |-> Polyphony,
          channels |-> [b EXCEPT ![sp] = FALSE],
          steal_pos |-> (sp + 1) % Polyphony, stolen |-> TRUE]

\* Mutant: the steal path forgets to advance the cursor.
acquire_no_advance(b, sp) ==
    LET s == scan(b, 0, 0, NoChannel) IN
    IF s.free_ch # NoChannel
    THEN [ch |-> s.free_ch, n_active |-> s.active,
          channels |-> b, steal_pos |-> sp, stolen |-> FALSE]
    ELSE [ch |-> sp, n_active |-> Polyphony,
          channels |-> [b EXCEPT ![sp] = FALSE],
          steal_pos |-> sp, stolen |-> TRUE]

\* Mutant: the victim is faded out instead of stopped, so it stays busy.
acquire_fadeout(b, sp) ==
    LET s == scan(b, 0, 0, NoChannel) IN
    IF s.free_ch # NoChannel
    THEN [ch |-> s.free_ch, n_active |-> s.active,
          channels |-> b, steal_pos |-> sp, stolen |-> FALSE]
    ELSE [ch |-> sp, n_active |-> Polyphony,
          channels |-> b,
          steal_pos |-> (sp + 1) % Polyphony, stolen |-> TRUE]

\* Mutant: the victim is the channel after the cursor.
acquire_steal_next(b, sp) ==
    LET s == scan(b, 0, 0, NoChannel)
        v == (sp + 1) % Polyphony IN
    IF s.free_ch # NoChannel
    THEN [ch |-> s.free_ch, n_active |-> s.active,
          channels |-> b, steal_pos |-> sp, stolen |-> FALSE]
    ELSE [ch |-> v, n_active |-> Polyphony,
          channels |-> [b EXCEPT ![v] = FALSE],
          steal_pos |-> v, stolen |-> TRUE]

\* ChannelRing.acquire: the channel, the count, and the ring afterwards.
acquire(b, sp) ==
    LET s == scan(b, 0, 0, NoChannel) IN
    IF s.free_ch # NoChannel
    THEN [ch |-> s.free_ch, n_active |-> s.active,
          channels |-> b, steal_pos |-> sp, stolen |-> FALSE]
    ELSE [ch |-> sp, n_active |-> Polyphony,
          channels |-> [b EXCEPT ![sp] = FALSE],
          steal_pos |-> (sp + 1) % Polyphony, stolen |-> TRUE]

RECURSIVE count_busy(_, _)
count_busy(b, i) ==
    IF i = Polyphony THEN 0
    ELSE (IF b[i] THEN 1 ELSE 0) + count_busy(b, i + 1)

\* Mutant: a separate counter that drifts one above the busy channels.
active_count_drift(b) == count_busy(b, 0) + 1

\* ChannelRing.active_count
active_count(b) == count_busy(b, 0)

\* ------------------------------------------------------------- histories
RECURSIVE Without(_, _)
Without(s, x) ==
    IF s = <<>> THEN <<>>
    ELSE IF Head(s) = x THEN Without(Tail(s), x)
    ELSE <<Head(s)>> \o Without(Tail(s), x)

\* ------------------------------------------------------------ sound bank
Slots == 0..(N_POOLS - 1)
\* Slots filled from the key file, and from the mouse file.
KeyboardSlots == {PIDX_NORMAL, PIDX_NORMAL_F, PIDX_NORMAL_R,
                  PIDX_HEAVY, PIDX_HEAVY_F, PIDX_HEAVY_R}
MouseSlots    == {PIDX_MOUSE, PIDX_MOUSE3}

\* Representative key ids: a normal key, a heavy key, two mouse buttons.
HEAVY_KEYS == {"Key.space"}
MOUSE3_KEY == "Button.middle"
KeyIds(is_mouse) ==
    IF is_mouse THEN {"Button.left", MOUSE3_KEY} ELSE {"a", "Key.space"}

NoIndex == -1
\* pitch_bias = None
NoBias  == -1
\* self._pack_loader = None
NoLoader == [obj |-> FALSE, mode |-> "", sounds |-> {}]
\* KeyPackLoader(): a loader with nothing loaded (also the state after unload).
KeyPackLoader == [obj |-> TRUE, mode |-> "", sounds |-> {}]
\* No command under dispatch.
NoCmd  == [id |-> 0, key_id |-> "", is_mouse |-> FALSE, is_release |-> FALSE]
NoSeen == [custom |-> -1, psize |-> -1]
\* The release sub-config of a key class in the presets: absent, present
\* without an "enabled" entry, present with enabled false or true.
ReleaseCfgs == {"missing", "empty", "disabled", "enabled"}
\* presets.json as shipped: both key classes have their release enabled.
ReleaseOn == [normal |-> "enabled", heavy |-> "enabled"]
\* Nothing looked up on disk yet.
NothingFound == [key |-> FALSE, mouse |-> FALSE, loadable |-> {},
                 release |-> ReleaseOn]

\* [[] for _ in range(_N_POOLS)], as built by call number g of reload_sounds
\* (0: the constructor).
EmptyPools(g) == [s \in Slots |-> [gen |-> g, n |-> 0]]

\* The bindings main.py hands to the engine: a soundpack folder, or files
\* bound to single keys.
BindingChoices ==
    { [pack |-> TRUE,  keys |-> {}],
      [pack |-> FALSE, keys |-> {"a", "Key.space"}] }
\* Keys a soundpack defines a sound for.
PackKeys == {"a"}

\* KeyPackLoader.resolve: is a sound returned (TRUE) or None (FALSE).
resolve(loader, key_id, is_release) ==
    IF loader.mode \in {"json", "fallback"}
    THEN (IF is_release THEN FALSE ELSE key_id \in loader.sounds)
    ELSE FALSE

\* MicroVariator.was_recent
was_recent(recent, p, i) == \E k \in 1..Len(recent) : recent[k] = <<p, i>>

\* Slots picked from in SpecPick: one press slot, one release slot.
PickSlots == {PIDX_NORMAL, PIDX_NORMAL_R}

\* The last _MV_RECENT_N selections from one pool, the newest last.
selections(w, i) ==
    IF Len(w) >= MV_RECENT_N THEN Append(Tail(w), i) ELSE Append(w, i)

\* MicroVariator.record: append to a deque(maxlen=_MV_RECENT_N).
record(recent, p, i) ==
    IF Len(recent) >= MV_RECENT_N THEN Append(Tail(recent), <<p, i>>)
    ELSE Append(recent, <<p, i>>)

\* MicroVariator.pitch_pool_bias: None below 4 clips, else a bucket of the
\* random pitch offset (any index of the pool).
pitch_pool_bias(pool_size) ==
    IF pool_size < 4 THEN {NoBias} ELSE 0..(pool_size - 1)

\* Mutant: the last resort keeps the previous index.
fallback_last(n, last) == last

\* _pick, the last resort: the first index that differs from last.
fallback(n, last) ==
    IF \E c \in 0..(n - 1) : c # last
    THEN CHOOSE c \in 0..(n - 1) :
            c # last /\ \A d \in 0..(n - 1) : d < c => d = last
    ELSE last

RECURSIVE retry_no_fallback(_, _, _, _)
\* Mutant: after the last colliding draw the previous index is kept.
retry_no_fallback(k, ok, n, last) ==
    IF k = 0 THEN {last}
    ELSE ok \cup (IF ok # 0..(n - 1)
                  THEN retry_no_fallback(k - 1, ok, n, last)
                  ELSE {})

RECURSIVE retry(_, _, _, _)
\* _pick: the indices the loop of random draws can end with, k draws left;
\* ok holds the candidates that differ from last and are not recent. A
\* draw in ok is taken; a colliding draw leads to the next draw; past the
\* last draw comes the fallback.
retry(k, ok, n, last) ==
    IF k = 0 THEN {fallback(n, last)}
    ELSE ok \cup (IF ok # 0..(n - 1)
                  THEN retry(k - 1, ok, n, last)
                  ELSE {})

\* Mutant: _pick on an empty pool leaves 0 as the last index.
pick_empty_zero(last) == [sound |-> FALSE, idx |-> NoIndex, last |-> 0]

\* _pick: if not pool: return None, -1
pick_empty(last) == [sound |-> FALSE, idx |-> NoIndex, last |-> last]

\* Mutant: _pick takes the bias without the range check.
bias_unchecked(b, n) == TRUE

\* _pick: 0 <= pitch_bias < n, n being the length read under the lock.
bias_in_pool(b, n) == 0 <= b /\ b < n

\* _pick (body of the with block): the possible results for slot p. sound
\* is FALSE for None; last is the new value of _last_idx[p].
pick(pl, li, recent, p, b) ==
    LET n    == pl[p].n
        last == li[p]
        ok   == {c \in 0..(n - 1) : c # last /\ ~was_recent(recent, p, c)}
    IN IF n = 0 THEN {pick_empty(last)}
       ELSE IF n = 1 THEN {[sound |-> TRUE, idx |-> 0, last |-> last]}
       ELSE IF b # NoBias /\ bias_in_pool(b, n) /\ b # last
               /\ ~was_recent(recent, p, b)
       THEN {[sound |-> TRUE, idx |-> b, last |-> b]}
       ELSE {[sound |-> TRUE, idx |-> i, last |-> i] :
                i \in retry(PICK_RETRIES, ok, n, last)}

\* Mutant: _pick does not take the bank lock.
lock_ignored(l) == TRUE

\* with self._pool_lock: the lock can be taken.
lock_free(l) == l = "free"

\* Mutant: a missing source file leaves the live pool of the slot in place.
built_pool_keep(exists, g, live) == IF exists THEN [gen |-> g, n |-> PoolSize] ELSE live

\* reload_sounds: the pool built for a slot by call g: pool_size clips when
\* the source file exists, else the empty list new_pools started with.
built_pool(exists, g, live) ==
    IF exists THEN [gen |-> g, n |-> PoolSize] ELSE [gen |-> g, n |-> 0]

\* Mutant: the first binding that fails to load ends the loop.
load_bindings_abort(keys, loadable) == IF keys \subseteq loadable THEN keys ELSE {}

\* reload_sounds, classic mode: the bindings whose file loads are installed.
load_bindings(keys, loadable) == keys \cap loadable

\* Mutant: a build stores its pools straight into the live bank.
store_built_live(live, fresh, built) == [live |-> built, fresh |-> fresh]

\* reload_sounds: a finished build goes to new_pools, not to self._pools.
store_built(live, fresh, built) == [live |-> live, fresh |-> built]

\* Mutant: the swap leaves the last-index trackers as they are.
reset_last_keep(li) == li

\* self._last_idx[:] = [-1] * _N_POOLS
reset_last(li) == [s \in Slots |-> NoIndex]

\* ------------------------------------------------------------------ Init
\* AudioEngine.__init__: queue, ring, loop and the threads around them.
InitEngine ==
    /\ clock = 0
    /\ queue = <<>>
    /\ wakeup = FALSE
    /\ running = FALSE
    /\ active_voices = 0
    /\ channels = [c \in Channels |-> FALSE]
    /\ steal_pos = 0
    /\ ppc = [p \in Producers |-> "idle"]
    /\ pc = "off"
    /\ now = 0
    /\ loop_ctr = 0
    /\ drained = 0
    /\ delay_buf = <<>>
    /\ pending = <<>>
    /\ ch = NoChannel
    /\ n_active = 0
    /\ cpc = [t \in Callers |-> "idle"]
    /\ cch = [t \in Callers |-> NoChannel]
    /\ cn = [t \in Callers |-> 0]
    /\ next_id = 0
    /\ dropped = {}
    /\ dispatched = [i \in CmdIds |-> 0]
    /\ play_order = <<>>
    /\ ended = FALSE
    /\ acquires = 0
    /\ stolen = FALSE
    /\ lost_wake = FALSE

\* AudioEngine.__init__: empty pools, no bindings, no soundpack loader.
InitSound ==
    /\ key_bindings = [pack |-> FALSE, keys |-> {}]
    /\ pools = EmptyPools(0)
    /\ last_idx = [s \in Slots |-> NoIndex]
    /\ custom_sounds = [gen |-> 0, keys |-> {}]
    /\ pack_loader = NoLoader
    /\ pool_lock = "free"
    /\ mv_recent = <<>>
    /\ rpc = "idle"
    /\ reloads = 0
    /\ new_pools = EmptyPools(0)
    /\ new_custom = {}
    /\ found = NothingFound
    /\ inflight = {}
    /\ play_cmd = NoCmd
    /\ pidx = NoIndex
    /\ bias = NoBias
    /\ seen = NoSeen
    /\ last_gen = [s \in Slots |-> 0]
    /\ returned = [s \in Slots |-> NoIndex]

\* The keys of the keyboard the model presses.
Keys == {"a", "b", "c"}
NoTime == -1

\* InputHandler.__init__: nothing pressed, no press time, no last key; no
\* key is physically held, no press command has been enqueued.
NoHandler ==
    [now |-> 0, held |-> {}, repeating |-> "", pressed |-> {},
     press_times |-> [k \in Keys |-> NoTime], last_key |-> "",
     enqueued |-> [k \in Keys |-> 0]]

\* No level: update_volume has not been called.
NoLevel == -ONE - 1
\* Levels passed to update_volume: below 0, inside [0, 1], above 1.
Levels == {-(ONE \div 2), 0, ONE \div 4, ONE \div 2, ONE, ONE + ONE \div 2}
\* Values of cfg["app"]["initial_volume"].
Volumes == {0, ONE \div 4, ONE \div 2, ONE}

\* max(0.0, min(1.0, x))
clamp01(x) == IF x < 0 THEN 0 ELSE IF x > ONE THEN ONE ELSE x

\* pygame.mixer.Sound.set_volume(value) on a clip of volume old: a value
\* below 0 leaves the volume as it is, a value above 1 sets it to 1.
Sound_set_volume(old, value) ==
    IF value < 0 THEN old ELSE IF value > ONE THEN ONE ELSE value

\* The engine at master volume v, every clip built at that volume
\* (_to_sounds, the custom binding loop, load_folder).
InitLevel(v) ==
    /\ volume = v
    /\ snd_volume = [pools |-> v, custom |-> v, pack |-> v]
    /\ new_vol = NoLevel

\* No gain computed yet.
NoVoice == [source |-> "", is_release |-> FALSE, duration |-> 0, n_active |-> 0,
            base |-> 0, dur_scale |-> 0, eq_scale |-> 0, mv_scale |-> 0,
            vol |-> 0]

\* AudioEngine.__init__ at initial volume v and smoothed WPM e (0.0 in the
\* program): the MicroVariator, with the histories empty.
InitMixAt(v, e) ==
    /\ picked = <<>>
    /\ last_key_id = ""
    /\ InitLevel(v)
    /\ ema_wpm = e
    /\ voice = NoVoice
    /\ mixer = TRUE
    /\ threads = 0
    /\ sos_cache = {}
    /\ builds = {}
    /\ handler = NoHandler

\* WpmTracker after n record() calls made gap milliseconds apart: the
\* burst factor is 1.0, burst_wpm has not been called.
Tracker(n, gap) ==
    [times |-> [i \in 1..n |-> i * gap], burst_factor |-> ONE,
     ret |-> <<0, ONE>>, calls |-> 0]

InitMix == InitMixAt(INITIAL_VOLUME, 0) /\ tracker = Tracker(0, 0)

Init == InitEngine /\ InitSound /\ InitMix

\* ---------------------------------------------------------------- clock
\* time.monotonic() advances.
Tick ==
    /\ clock < MaxTime
    /\ clock' = clock + 1
    /\ UNCHANGED soundVars
    /\ UNCHANGED <<running, queueVars, ringVars, histVars, loopVars, callVars>>

\* -------------------------------------------------------- engine facade
\* Mutant: start() without the check of _running.
may_start_always(r) == TRUE

\* AudioEngine.start: `if self._running: return`.
may_start(r) == ~r

\* AudioEngine.start: no-op when running, else spawns the loop thread.
Start ==
    /\ may_start(running)
    /\ running' = TRUE
    /\ pc' = "top"
    /\ threads' = threads + 1
    /\ UNCHANGED <<bankVars, reloadVars, playVars, picked, last_key_id,
                   volVars, dynVars, mixer, dspVars, handler>>
    /\ UNCHANGED <<clock, queueVars, ringVars, histVars, callVars, now, loop_ctr,
                   drained, delay_buf, pending, ch, n_active, dispatched,
                   lost_wake, active_voices>>

\* AudioEngine.enqueue_play up to and including put_nowait; on queue.Full
\* the except clause swallows the error and the call returns.
EnqueuePut(p) ==
    /\ ppc[p] = "idle"
    /\ next_id < MaxCmds
    /\ \E k \in InputKinds(p) :
       \E j \in JitterChoices(k.is_mouse, k.is_release) :
          /\ clock + j <= MaxTime
          /\ LET id == next_id + 1
                 r  == put_nowait(queue, PlayCommand(id, k, clock + j))
             IN /\ queue' = r.queue
                /\ next_id' = id
                /\ dropped' = IF r.full THEN dropped \cup {id} ELSE dropped
                /\ ppc' = [ppc EXCEPT ![p] = IF r.full THEN "idle" ELSE "set"]
    /\ UNCHANGED soundVars
    /\ UNCHANGED <<clock, running, wakeup, ringVars, histVars, loopVars, callVars>>

\* AudioEngine.enqueue_play: self._wakeup.set() after a successful put.
EnqueueSet(p) ==
    /\ ppc[p] = "set"
    /\ wakeup' = TRUE
    /\ ppc' = [ppc EXCEPT ![p] = "idle"]
    /\ lost_wake' = (lost_wake \/ pc = "clear")
    /\ UNCHANGED soundVars
    /\ UNCHANGED <<clock, running, queue, next_id, dropped, ringVars, histVars, callVars,
                   pc, now, loop_ctr, drained, delay_buf, pending, ch,
                   n_active, dispatched, active_voices>>

\* ------------------------------------------------------ audio backend
\* A channel's playback reaches the end of its sound.
ChannelEnd(c) ==
    /\ channels[c]
    /\ channels' = [channels EXCEPT ![c] = FALSE]
    /\ UNCHANGED soundVars
    /\ UNCHANGED <<clock, running, queueVars, steal_pos, histVars, loopVars,
                   callVars>>

\* Effect of one acquire() on the ring, r being acquire's result.
RingAcquire(r) ==
    /\ channels' = r.channels
    /\ steal_pos' = r.steal_pos

\* Effect of Channel.play on channel c.
ChannelPlay(c) ==
    /\ channels' = [channels EXCEPT ![c] = TRUE]
    /\ UNCHANGED steal_pos

\* ------------------------------------------------------- _audio_loop
\* Mutant: wait() without a timeout returns only when the flag is set.
wait_no_timeout(flag) == flag

\* Event.wait(timeout): returns when the flag is set or the timeout expires.
wait_returns(flag) == flag \/ TRUE

\* Mutant: the commands that were not due are not put back.
rebuffer_forget(buf, pend) == buf

\* Mutant: extendleft without reversed() puts the held commands back in
\* reverse order.
rebuffer_reversed(buf, pend) ==
    [k \in 1..Len(pend) |-> pend[Len(pend) + 1 - k]] \o buf

\* _delay_buf.extendleft(reversed(_pending)) when _pending is not empty.
rebuffer(buf, pend) == IF pend # <<>> THEN pend \o buf ELSE buf

\* while self._running: now = time.monotonic(); _loop_ctr += 1; drained = 0
LoopTop ==
    /\ pc = "top"
    /\ running
    /\ now' = clock
    /\ loop_ctr' = loop_ctr + 1
    /\ drained' = 0
    /\ pc' = "drain"
    /\ UNCHANGED soundVars
    /\ UNCHANGED <<clock, running, queueVars, ringVars, histVars, callVars, delay_buf,
                   pending, ch, n_active, dispatched, lost_wake, active_voices>>

\* The drain loop: one get_nowait per step, until batch_max or queue.Empty.
LoopDrain ==
    /\ pc = "drain"
    /\ \/ /\ drained < BatchMax
          /\ queue # <<>>
          /\ delay_buf' = Append(delay_buf, Head(queue))
          /\ queue' = Tail(queue)
          /\ drained' = drained + 1
          /\ UNCHANGED <<pc, pending>>
       \/ /\ ~(drained < BatchMax /\ queue # <<>>)
          /\ pending' = <<>>
          /\ drained' = 0
          /\ pc' = "process"
          /\ UNCHANGED <<queue, delay_buf>>
    /\ UNCHANGED soundVars
    /\ UNCHANGED <<clock, running, wakeup, ppc, next_id, dropped, ringVars,
                   histVars, callVars, now, loop_ctr, ch, n_active, dispatched,
                   lost_wake, active_voices>>

\* The processing loop: popleft; due -> _do(cmd), else -> _pending.
\* _do_play either finds no sound and returns, or goes on to acquire.
LoopProcess ==
    /\ pc = "process"
    /\ delay_buf # <<>>
    /\ LET cmd == Head(delay_buf) IN
       /\ delay_buf' = Tail(delay_buf)
       /\ \/ /\ now >= cmd.not_before
             /\ dispatched' = [dispatched EXCEPT ![cmd.id] = @ + 1]
             /\ \E has_sound \in BOOLEAN :
                   pc' = IF has_sound THEN "acquire" ELSE "process"
             /\ UNCHANGED pending
          \/ /\ now < cmd.not_before
             /\ pending' = Append(pending, cmd)
             /\ UNCHANGED <<pc, dispatched>>
    /\ UNCHANGED soundVars
    /\ UNCHANGED <<clock, running, queueVars, ringVars, histVars, callVars, now,
                   loop_ctr, drained, ch, n_active, lost_wake, active_voices>>

\* _do_play: ch, n_active = self._ring.acquire()
LoopAcquire ==
    /\ pc = "acquire"
    /\ LET r == acquire(channels, steal_pos) IN
       /\ RingAcquire(r)
       /\ ch' = r.ch
       /\ n_active' = r.n_active
    /\ pc' = "play"
    /\ UNCHANGED soundVars
    /\ UNCHANGED <<clock, running, queueVars, histVars, callVars, now, loop_ctr, drained,
                   delay_buf, pending, dispatched, lost_wake, active_voices>>

\* _do_play: ch.set_volume(vol); ch.play(sound, fade_ms=fms)
LoopPlay ==
    /\ pc = "play"
    /\ ChannelPlay(ch)
    /\ ch' = NoChannel
    /\ n_active' = 0
    /\ pc' = "process"
    /\ UNCHANGED soundVars
    /\ UNCHANGED <<clock, running, queueVars, histVars, callVars, now, loop_ctr, drained,
                   delay_buf, pending, dispatched, lost_wake, active_voices>>

\* End of the processing loop: re-buffer what is not yet due (local to the
\* thread), then the periodic housekeeping: every _UI_POLL iterations
\* refresh _active_voices from the ring.
LoopHouse ==
    /\ pc = "process"
    /\ delay_buf = <<>>
    /\ delay_buf' = rebuffer(delay_buf, pending)
    /\ pending' = <<>>
    /\ now' = 0
    /\ \/ /\ loop_ctr >= UI_POLL
          /\ loop_ctr' = 0
          /\ active_voices' = active_count(channels)
       \/ /\ loop_ctr < UI_POLL
          /\ UNCHANGED <<loop_ctr, active_voices>>
    /\ pc' = "wait"
    /\ UNCHANGED soundVars
    /\ UNCHANGED <<clock, running, queueVars, ringVars, histVars, callVars,
                   drained, ch, n_active, dispatched, lost_wake>>

\* self._wakeup.wait(timeout=loop_ms)
LoopWait ==
    /\ pc = "wait"
    /\ wait_returns(wakeup)
    /\ pc' = "clear"
    /\ UNCHANGED soundVars
    /\ UNCHANGED <<clock, running, queueVars, ringVars, histVars, callVars, now,
                   loop_ctr, drained, delay_buf, pending, ch, n_active,
                   dispatched, lost_wake, active_voices>>

\* self._wakeup.clear()
LoopClear ==
    /\ pc = "clear"
    /\ wakeup' = FALSE
    /\ lost_wake' = FALSE
    /\ pc' = "top"
    /\ UNCHANGED soundVars
    /\ UNCHANGED <<clock, running, queue, ppc, next_id, dropped, ringVars,
                   histVars, callVars, now, loop_ctr, drained, delay_buf, pending, ch,
                   n_active, dispatched, active_voices>>

Loop ==
    \/ LoopTop \/ LoopDrain \/ LoopProcess \/ LoopAcquire \/ LoopPlay
    \/ LoopHouse \/ LoopWait \/ LoopClear

Next ==
    \/ Tick
    \/ Start
    \/ \E p \in Producers : EnqueuePut(p)
    \/ \E p \in Producers : EnqueueSet(p)
    \/ \E c \in Channels : ChannelEnd(c)
    \/ Loop

Spec == Init /\ [][Next]_vars

\* The engine of SpecLive makes at most MaxLiveCmds enqueue_play calls; the
\* loop thread is scheduled and time advances.
NextLive ==
    \/ Tick
    \/ Start
    \/ \E p \in Producers : next_id < MaxLiveCmds /\ EnqueuePut(p)
    \/ \E p \in Producers : EnqueueSet(p)
    \/ \E c \in Channels : ChannelEnd(c)
    \/ Loop

SpecLive == Init /\ [][NextLive]_vars /\ WF_vars(Loop) /\ WF_vars(Tick)

\* ------------------------------------------ direct users of a ChannelRing
\* A thread runs the channel part of _do_play: acquire(), then play().
CallerAcquire(t) ==
    /\ cpc[t] = "idle"
    /\ LET r == acquire(channels, steal_pos) IN
       /\ RingAcquire(r)
       /\ cch' = [cch EXCEPT ![t] = r.ch]
       /\ cn' = [cn EXCEPT ![t] = r.n_active]
       /\ stolen' = r.stolen
       /\ play_order' = IF r.stolen THEN Without(play_order, r.ch)
                        ELSE play_order
    /\ acquires' = IF acquires < Polyphony + 2 THEN acquires + 1 ELSE acquires
    /\ cpc' = [cpc EXCEPT ![t] = "got"]
    /\ UNCHANGED soundVars
    /\ UNCHANGED <<clock, running, queueVars, loopVars, ended>>

CallerPlay(t) ==
    /\ cpc[t] = "got"
    /\ ChannelPlay(cch[t])
    /\ play_order' = Append(Without(play_order, cch[t]), cch[t])
    /\ stolen' = FALSE
    /\ cch' = [cch EXCEPT ![t] = NoChannel]
    /\ cn' = [cn EXCEPT ![t] = 0]
    /\ cpc' = [cpc EXCEPT ![t] = "idle"]
    /\ UNCHANGED soundVars
    /\ UNCHANGED <<clock, running, queueVars, loopVars, ended, acquires>>

\* Between two dispatches the thread refreshes _active_voices.
CallerHouse(t) ==
    /\ cpc[t] = "idle"
    /\ active_voices' = active_count(channels)
    /\ UNCHANGED soundVars
    /\ UNCHANGED <<clock, running, queueVars, ringVars, histVars, callVars, pc,
                   now, loop_ctr, drained, delay_buf, pending, ch, n_active,
                   dispatched, lost_wake>>

\* A channel's playback reaches the end of its sound (with the histories).
CallerChannelEnd(c) ==
    /\ channels[c]
    /\ channels' = [channels EXCEPT ![c] = FALSE]
    /\ play_order' = Without(play_order, c)
    /\ ended' = TRUE
    /\ UNCHANGED soundVars
    /\ UNCHANGED <<clock, running, queueVars, steal_pos, acquires, stolen,
                   loopVars, callVars>>

\* Two threads on one ring.
NextRing ==
    \/ \E t \in Callers : CallerAcquire(t)
    \/ \E t \in Callers : CallerPlay(t)
    \/ \E c \in Channels : CallerChannelEnd(c)

SpecRing == Init /\ [][NextRing]_vars

\* One thread using the ring as the scheduling loop does: acquire(), play(),
\* and the periodic refresh, for any number of dispatches.
NextVoice ==
    \/ CallerAcquire("a")
    \/ CallerPlay("a")
    \/ CallerHouse("a")
    \/ \E c \in Channels : CallerChannelEnd(c)

SpecVoice == Init /\ [][NextVoice]_vars

\* ------------------------------------------------ reload_sounds, _do_play
engineVars == <<clock, running, queueVars, ringVars, histVars, loopVars,
                callVars>>
loopRest   == <<now, loop_ctr, drained, delay_buf, pending, ch, n_active,
                dispatched, lost_wake, active_voices>>

\* Ids of the commands in flight: in the queue, in the delay buffer or in
\* the pending list, not yet handed to _do_play.
Ids(q) == {q[k].id : k \in 1..Len(q)}
InFlightIds == Ids(queue) \cup Ids(delay_buf) \cup Ids(pending)

\* The pools reload call g has built once its keyboard section (keys) and
\* its mouse section (mouse) are through; a section whose file is missing
\* leaves the empty lists new_pools started with.
built_pools(keys, key_exists, mouse, mouse_exists, g, live) ==
    [s \in Slots |->
        IF s \in KeyboardSlots
        THEN (IF keys THEN built_pool(key_exists, g, live[s])
              ELSE [gen |-> g, n |-> 0])
        ELSE (IF mouse THEN built_pool(mouse_exists, g, live[s])
              ELSE [gen |-> g, n |-> 0])]

\* The control thread calls reload_sounds (main.py sets _key_bindings
\* first) and builds new_pools: six pools when the key file exists, two when
\* the mouse file exists. An exception of _load_raw or of a build, in the
\* keyboard section or in the mouse section, leaves reload_sounds at once.
\* The builds work on locals only, so they are one step.
ReloadBuild ==
    /\ rpc \in {"idle", "raised"}
    /\ running \/ reloads = 0
    /\ reloads + next_id < MaxBankOps
    /\ reloads' = reloads + 1
    /\ \E kb \in BindingChoices : key_bindings' = kb
    /\ new_custom' = {}
    /\ \E key_exists \in BOOLEAN : \E mouse_exists \in BOOLEAN :
        \/ /\ found' = [key |-> key_exists, mouse |-> mouse_exists,
                        loadable |-> {}, release |-> ReleaseOn]
           /\ LET r == store_built(pools, new_pools,
                           built_pools(TRUE, key_exists, TRUE, mouse_exists,
                                       reloads + 1, pools))
              IN /\ pools' = r.live
                 /\ new_pools' = r.fresh
           /\ inflight' = InFlightIds
           /\ rpc' = "bind"
        \/ /\ key_exists
           /\ rpc' = "raised"
           /\ UNCHANGED <<found, inflight, pools, new_pools>>
        \/ /\ mouse_exists
           /\ LET r == store_built(pools, new_pools,
                           built_pools(TRUE, key_exists, FALSE, mouse_exists,
                                       reloads + 1, pools))
              IN pools' = r.live
           /\ rpc' = "raised"
           /\ UNCHANGED <<found, inflight, new_pools>>
    /\ UNCHANGED mixVars
    /\ UNCHANGED <<engineVars, playVars, last_idx, custom_sounds, pack_loader,
                   pool_lock, mv_recent, last_gen, returned>>

\* Mode selection. Pack mode: unload the loader or create one. Classic
\* mode: unload the loader if there is one.
ReloadBind ==
    /\ rpc = "bind"
    /\ \/ /\ key_bindings.pack
          /\ pack_loader' = KeyPackLoader
          /\ rpc' = "pack_load"
       \/ /\ ~key_bindings.pack
          /\ pack_loader.obj
          /\ pack_loader' = KeyPackLoader
          /\ rpc' = "pack_drop"
       \/ /\ ~key_bindings.pack
          /\ ~pack_loader.obj
          /\ UNCHANGED pack_loader
          /\ rpc' = "custom"
    /\ UNCHANGED mixVars
    /\ UNCHANGED <<engineVars, playVars, pools, last_idx, custom_sounds,
                   pool_lock, mv_recent, last_gen, returned, key_bindings,
                   reloads, new_pools, new_custom, found, inflight>>

\* Classic mode: self._pack_loader = None
ReloadPackDrop ==
    /\ rpc = "pack_drop"
    /\ pack_loader' = NoLoader
    /\ rpc' = "custom"
    /\ UNCHANGED mixVars
    /\ UNCHANGED <<engineVars, playVars, pools, last_idx, custom_sounds,
                   pool_lock, mv_recent, last_gen, returned, key_bindings,
                   reloads, new_pools, new_custom, found, inflight>>

\* Pack mode: the folder is missing (loader dropped), load_folder succeeds
\* (the mode is set last, once the sounds are in; a folder without a JSON
\* file gives mode "fallback", which resolve treats like "json"), or it
\* raises (unload).
ReloadPackLoad ==
    /\ rpc = "pack_load"
    /\ \/ /\ pack_loader' = NoLoader
          /\ rpc' = "lock"
       \/ /\ pack_loader' = [obj |-> TRUE, mode |-> "json", sounds |-> PackKeys]
          /\ rpc' = "lock"
       \/ /\ pack_loader' = KeyPackLoader
          /\ rpc' = "pack_fail"
    /\ UNCHANGED mixVars
    /\ UNCHANGED <<engineVars, playVars, pools, last_idx, custom_sounds,
                   pool_lock, mv_recent, last_gen, returned, key_bindings,
                   reloads, new_pools, new_custom, found, inflight>>

\* Pack mode, after the except clause's unload: self._pack_loader = None
ReloadPackFail ==
    /\ rpc = "pack_fail"
    /\ pack_loader' = NoLoader
    /\ rpc' = "lock"
    /\ UNCHANGED mixVars
    /\ UNCHANGED <<engineVars, playVars, pools, last_idx, custom_sounds,
                   pool_lock, mv_recent, last_gen, returned, key_bindings,
                   reloads, new_pools, new_custom, found, inflight>>

\* Classic mode: the loop over the bindings; a file that is missing or does
\* not load is skipped.
ReloadCustom ==
    /\ rpc = "custom"
    /\ \E loadable \in SUBSET key_bindings.keys :
          /\ new_custom' = load_bindings(key_bindings.keys, loadable)
          /\ found' = [found EXCEPT !.loadable = loadable]
    /\ rpc' = "lock"
    /\ UNCHANGED mixVars
    /\ UNCHANGED <<engineVars, playVars, bankVars, key_bindings, reloads,
                   new_pools, inflight>>

\* with self._pool_lock:
ReloadLock ==
    /\ rpc = "lock"
    /\ lock_free(pool_lock)
    /\ pool_lock' = "reload"
    /\ rpc' = "swap"
    /\ UNCHANGED mixVars
    /\ UNCHANGED <<engineVars, playVars, pools, last_idx, custom_sounds,
                   pack_loader, mv_recent, last_gen, returned, key_bindings,
                   reloads, new_pools, new_custom, found, inflight>>

\* for i, pool in enumerate(new_pools): self._pools[i] = pool
\* The loop is one step: every reader looks at a single slot, so the states
\* in the middle of the loop look to it like the state before or after.
ReloadSwapPools ==
    /\ rpc = "swap"
    /\ pools' = [i \in Slots |-> new_pools[i]]
    /\ rpc' = "swap_custom"
    /\ snd_volume' = [snd_volume EXCEPT !.pools = volume]
    /\ UNCHANGED <<picked, last_key_id, volume, new_vol, dynVars, lifeVars, dspVars, handler>>
    /\ UNCHANGED <<engineVars, playVars, last_idx, custom_sounds, pack_loader,
                   pool_lock, mv_recent, last_gen, returned, key_bindings,
                   reloads, new_pools, new_custom, found, inflight>>

\* self._custom_sounds = new_custom
ReloadSwapCustom ==
    /\ rpc = "swap_custom"
    /\ custom_sounds' = [gen |-> reloads, keys |-> new_custom]
    /\ rpc' = "swap_last"
    /\ snd_volume' = [snd_volume EXCEPT !.custom = volume]
    /\ UNCHANGED <<picked, last_key_id, volume, new_vol, dynVars, lifeVars, dspVars, handler>>
    /\ UNCHANGED <<engineVars, playVars, pools, last_idx, pack_loader,
                   pool_lock, mv_recent, last_gen, returned, key_bindings,
                   reloads, new_pools, new_custom, found, inflight>>

\* self._last_idx[:] = [-1] * _N_POOLS, end of the with block, return.
ReloadSwapLast ==
    /\ rpc = "swap_last"
    /\ last_idx' = reset_last(last_idx)
    /\ last_gen' = [s \in Slots |-> IF last_idx'[s] = NoIndex THEN reloads
                                    ELSE last_gen[s]]
    /\ returned' = [s \in Slots |-> NoIndex]
    /\ pool_lock' = "free"
    /\ new_pools' = EmptyPools(0)
    /\ new_custom' = {}
    /\ found' = NothingFound
    /\ inflight' = {}
    /\ rpc' = "idle"
    /\ UNCHANGED mixVars
    /\ UNCHANGED <<engineVars, playVars, pools, custom_sounds, pack_loader,
                   mv_recent, key_bindings, reloads>>

\* The steps of reload_sounds before the swap.
ReloadRebuild ==
    \/ ReloadBuild \/ ReloadBind \/ ReloadPackDrop \/ ReloadPackLoad
    \/ ReloadPackFail \/ ReloadCustom

\* The critical section of reload_sounds.
ReloadSwap ==
    \/ ReloadLock \/ ReloadSwapPools \/ ReloadSwapCustom \/ ReloadSwapLast

Reload == ReloadRebuild \/ ReloadSwap

\* The processing loop with _do_play spelled out: popleft; due -> _do(cmd),
\* else -> _pending. The key of the command is fixed here: nothing reads
\* it while the command waits.
LoopDispatch ==
    /\ pc = "process"
    /\ delay_buf # <<>>
    /\ LET c == Head(delay_buf) IN
       /\ delay_buf' = Tail(delay_buf)
       /\ \/ /\ now >= c.not_before
             /\ dispatched' = [dispatched EXCEPT ![c.id] = @ + 1]
             /\ \E k \in KeyIds(c.is_mouse) :
                   play_cmd' = [id |-> c.id, key_id |-> k,
                                is_mouse |-> c.is_mouse,
                                is_release |-> c.is_release]
             /\ pc' = "pack_check"
             /\ UNCHANGED pending
          \/ /\ now < c.not_before
             /\ pending' = Append(pending, c)
             /\ UNCHANGED <<pc, dispatched, play_cmd>>
    /\ UNCHANGED mixVars
    /\ UNCHANGED <<clock, running, queueVars, ringVars, histVars, callVars, now,
                   loop_ctr, drained, ch, n_active, lost_wake, active_voices,
                   bankVars, reloadVars, pidx, bias, seen>>

\* _do_play: if self._pack_loader is not None
DoPlayCheck ==
    /\ pc = "pack_check"
    /\ pc' = IF pack_loader.obj THEN "resolve" ELSE "custom"
    /\ UNCHANGED mixVars
    /\ UNCHANGED <<clock, running, queueVars, ringVars, histVars, callVars,
                   loopRest, soundVars>>

\* Mutant: a soundpack clip is played and the pool flow goes on.
after_resolve_no_return(pack_snd) == "custom"

\* _do_play: if pack_snd is not None: acquire, play, return; else on to the
\* custom bindings.
after_resolve(pack_snd) == IF pack_snd THEN "acquire" ELSE "custom"

\* _do_play: pack_snd = self._pack_loader.resolve(...): the attribute is
\* read again; on None the call raises AttributeError, which nothing in
\* _audio_loop catches: the loop thread ends. A sound goes to the channel.
DoPlayResolve ==
    /\ pc = "resolve"
    /\ \/ /\ ~pack_loader.obj
          /\ pc' = "dead"
          /\ UNCHANGED play_cmd
       \/ /\ pack_loader.obj
          /\ pc' = after_resolve(resolve(pack_loader, play_cmd.key_id,
                                         play_cmd.is_release))
          /\ play_cmd' = IF pc' = "acquire" THEN NoCmd ELSE play_cmd
    /\ UNCHANGED mixVars
    /\ UNCHANGED <<clock, running, queueVars, ringVars, histVars, callVars,
                   loopRest, bankVars, reloadVars, pidx, bias, seen>>

\* AudioEngine._band_lo and the upper edge of the band, in thousandths.
band_lo == (WPM_THRESH - 10) * ONE
band_hi == band_lo + BAND_RNG * ONE

\* Values of base_wpm that burst_wpm returns, in words per minute.
WpmValues == {0, 30, 45, 65, 85, 200}
\* Values of random.random(), in thousandths: from 0.0 to below 1.0.
Draws == {0, ONE \div 2, ONE - 1}

\* burst_wpm()[0] when n keystrokes at most were recorded.
burst_base(n) == IF n < BURST_MIN_SAMPLES THEN {0} ELSE WpmValues

\* _do_play: self._ema_wpm = alpha * base_wpm + (1 - alpha) * self._ema_wpm
ema_step(ema, base_wpm) ==
    (EMA_ALPHA * base_wpm * ONE + (ONE - EMA_ALPHA) * ema) \div ONE

\* Mutant: the draw is compared with the unclamped ratio, the wrong way
\* round.
use_fast_inverted(ema, draw) ==
    draw * BAND_RNG * ONE >= ONE * (ema - band_lo)

\* _do_play: ratio = max(0, min(1, (ema - band_lo) / band_rng));
\* use_fast = random.random() < ratio
use_fast(ema, draw) ==
    LET over == ema - band_lo
        part == IF over < 0 THEN 0
                ELSE IF over > BAND_RNG * ONE THEN BAND_RNG * ONE ELSE over
    IN draw * BAND_RNG * ONE < ONE * part

\* _do_play: the pool slot of a command that has no custom sound.
select_pool(cmd, fast) ==
    LET heavy == cmd.key_id \in HEAVY_KEYS IN
    IF cmd.is_release
    THEN (IF heavy THEN PIDX_HEAVY_R ELSE PIDX_NORMAL_R)
    ELSE IF cmd.is_mouse
    THEN (IF cmd.key_id = MOUSE3_KEY THEN PIDX_MOUSE3 ELSE PIDX_MOUSE)
    ELSE IF heavy
    THEN (IF fast THEN PIDX_HEAVY_F ELSE PIDX_HEAVY)
    ELSE (IF fast THEN PIDX_NORMAL_F ELSE PIDX_NORMAL)

\* Mutant: the release of a bound key is played like its press.
release_played(is_release) == FALSE

\* _do_play: if cmd.key_id in self._custom_sounds: return (release branch).
release_suppressed(is_release) == is_release

\* MicroVariator.update_key(key_id): the new value of _last_key_id.
update_key(key_id) == key_id

\* _do_play: the custom binding of the key (a bound key plays its sound on
\* press and nothing on release), then the choice of the pool slot.
DoPlayCustom ==
    /\ pc = "custom"
    /\ LET bound == play_cmd.key_id \in custom_sounds.keys
       IN \/ /\ bound
             /\ release_suppressed(play_cmd.is_release)
             /\ pc' = "process"
             /\ play_cmd' = NoCmd
             /\ UNCHANGED <<pidx, seen, last_key_id, ema_wpm>>
          \/ /\ bound
             /\ ~release_suppressed(play_cmd.is_release)
             /\ last_key_id' = update_key(play_cmd.key_id)
             /\ pc' = "acquire"
             /\ play_cmd' = NoCmd
             /\ UNCHANGED <<pidx, seen, ema_wpm>>
          \/ /\ ~bound
             /\ play_cmd.is_release
             /\ \E last_key \in KeyIds(FALSE) :
                   last_key_id' = update_key(last_key)
             /\ pidx' = select_pool(play_cmd, FALSE)
             /\ UNCHANGED ema_wpm
             /\ pc' = "pick"
             /\ seen' = [seen EXCEPT !.custom = custom_sounds.gen]
             /\ UNCHANGED play_cmd
          \/ /\ ~bound
             /\ ~play_cmd.is_release
             /\ play_cmd.is_mouse
             /\ last_key_id' = update_key(play_cmd.key_id)
             /\ pidx' = select_pool(play_cmd, FALSE)
             /\ UNCHANGED ema_wpm
             /\ pc' = "pick"
             /\ seen' = [seen EXCEPT !.custom = custom_sounds.gen]
             /\ UNCHANGED play_cmd
          \/ /\ ~bound
             /\ ~play_cmd.is_release
             /\ ~play_cmd.is_mouse
             /\ last_key_id' = update_key(play_cmd.key_id)
             /\ \E base_wpm \in burst_base(next_id) :
                   ema_wpm' = ema_step(ema_wpm, base_wpm)
             /\ \E draw \in Draws :
                   pidx' = select_pool(play_cmd, use_fast(ema_wpm', draw))
             /\ pc' = "psize"
             /\ seen' = [seen EXCEPT !.custom = custom_sounds.gen]
             /\ UNCHANGED play_cmd
    /\ UNCHANGED <<picked, volVars, voice, tracker, lifeVars, dspVars, handler>>
    /\ UNCHANGED <<clock, running, queueVars, ringVars, histVars, callVars,
                   loopRest, bankVars, reloadVars, bias>>

\* _do_play: psize = len(self._pools[pidx]), read without the lock, and the
\* pitch bias computed from it.
DoPlayPsize ==
    /\ pc = "psize"
    /\ \E b \in pitch_pool_bias(pools[pidx].n) : bias' = b
    /\ seen' = [seen EXCEPT !.psize = pools[pidx].gen]
    /\ pc' = "pick"
    /\ UNCHANGED mixVars
    /\ UNCHANGED <<clock, running, queueVars, ringVars, histVars, callVars,
                   loopRest, bankVars, reloadVars, play_cmd, pidx>>

\* Effect of one _pick on the bank, r being its result; _do_play records a
\* picked clip in the anti-repetition window.
BankPick(p, r) ==
    /\ last_idx' = [last_idx EXCEPT ![p] = r.last]
    /\ last_gen' = [last_gen EXCEPT ![p] = IF r.last # last_idx[p]
                                           THEN pools[p].gen ELSE @]
    /\ returned' = [returned EXCEPT ![p] = r.idx]
    /\ mv_recent' = IF r.sound THEN record(mv_recent, p, r.idx) ELSE mv_recent

\* _do_play: sound, s_idx = self._pick(pidx, bias) under the bank lock;
\* no sound -> return, else on to the channel.
DoPlayPick ==
    /\ pc = "pick"
    /\ lock_free(pool_lock)
    /\ \E r \in pick(pools, last_idx, mv_recent, pidx, bias) :
          /\ BankPick(pidx, r)
          /\ pc' = IF r.sound THEN "acquire" ELSE "process"
    /\ play_cmd' = NoCmd
    /\ pidx' = NoIndex
    /\ bias' = NoBias
    /\ seen' = NoSeen
    /\ UNCHANGED mixVars
    /\ UNCHANGED <<clock, running, queueVars, ringVars, histVars, callVars,
                   loopRest, pools, custom_sounds, pack_loader, pool_lock,
                   reloadVars>>

DoPlay ==
    \/ DoPlayCheck \/ DoPlayResolve \/ DoPlayCustom \/ DoPlayPsize
    \/ DoPlayPick

\* The loop thread with _do_play spelled out.
BankLoop ==
    \/ LoopTop \/ LoopDrain \/ LoopDispatch \/ DoPlay \/ LoopAcquire
    \/ LoopPlay \/ LoopHouse \/ LoopWait \/ LoopClear

\* main.py: engine.reload_sounds() returns, then engine.start().
StartAfterReload == reloads = 1 /\ rpc = "idle" /\ Start

\* The engine with its sound bank: the input threads (main.py starts them
\* after the engine), the loop thread and the control thread, which calls
\* reload_sounds again while the loop runs. The listeners enqueue nothing
\* while the control thread is in its customizing flow (input_handler.py
\* tests get_customizing), so a command meets a reload only when it was
\* enqueued before and is still on its way.
NextReload ==
    \/ Tick
    \/ StartAfterReload
    \/ \E p \in Producers :
          /\ running
          /\ rpc \in {"idle", "raised"}
          /\ next_id < MaxReloadCmds
          /\ EnqueuePut(p)
    \/ \E p \in Producers : EnqueueSet(p)
    \/ BankLoop
    \/ Reload

\* The bank after the first reload_sounds (classic mode, both sound files
\* present), with custom clips bound to keys and the resolver loader.
BankLoaded(keys, loader) ==
    /\ key_bindings = [pack |-> loader.obj, keys |-> keys]
    /\ pools = built_pools(TRUE, TRUE, TRUE, TRUE, 1, EmptyPools(0))
    /\ last_idx = [s \in Slots |-> NoIndex]
    /\ custom_sounds = [gen |-> 1, keys |-> keys]
    /\ pack_loader = loader
    /\ pool_lock = "free"
    /\ mv_recent = <<>>
    /\ rpc = "idle"
    /\ reloads = 1
    /\ new_pools = EmptyPools(0)
    /\ new_custom = {}
    /\ found = NothingFound
    /\ inflight = {}
    /\ play_cmd = NoCmd
    /\ pidx = NoIndex
    /\ bias = NoBias
    /\ seen = NoSeen
    /\ last_gen = [s \in Slots |-> 1]
    /\ returned = [s \in Slots |-> NoIndex]

\* main.py: the engine is constructed, reload_sounds has returned (classic
\* mode, both sound files present, no key bound) and start is next.
InitReload == InitEngine /\ InitMix /\ BankLoaded({}, NoLoader)

SpecReload == InitReload /\ [][NextReload]_vars

\* The loop thread calls _do(cmd) for a command that was enqueued, drained
\* and found due: any command the input threads can produce.
DispatchCall ==
    /\ running
    /\ pc \in {"top", "process"}
    /\ reloads + next_id < MaxBankOps
    /\ next_id' = next_id + 1
    /\ dispatched' = [dispatched EXCEPT ![next_id + 1] = 1]
    /\ \E p \in Producers : \E k \in InputKinds(p) :
       \E key \in KeyIds(k.is_mouse) :
          play_cmd' = [id |-> next_id + 1, key_id |-> key,
                       is_mouse |-> k.is_mouse, is_release |-> k.is_release]
    /\ pc' = "pack_check"
    /\ UNCHANGED mixVars
    /\ UNCHANGED <<clock, running, queue, wakeup, ppc, dropped, ringVars,
                   histVars, callVars, now, loop_ctr, drained, delay_buf,
                   pending, ch, n_active, lost_wake, active_voices, bankVars,
                   reloadVars, pidx, bias, seen>>

\* The sound bank between its two users: the loop thread dispatching
\* commands and the control thread reloading.
NextBank ==
    \/ StartAfterReload
    \/ DispatchCall
    \/ DoPlay
    \/ LoopAcquire
    \/ LoopPlay
    \/ Reload

SpecBank == Init /\ [][NextBank]_vars


\* ------------------------------------------------------------ _pick alone
\* The bank after a completed reload whose pools hold n clips each.
InitPick ==
    /\ InitEngine
    /\ InitMix
    /\ key_bindings = [pack |-> FALSE, keys |-> {}]
    /\ \E n \in 0..MaxPick : pools = [s \in Slots |-> [gen |-> 1, n |-> n]]
    /\ last_idx = [s \in Slots |-> NoIndex]
    /\ custom_sounds = [gen |-> 1, keys |-> {}]
    /\ pack_loader = NoLoader
    /\ pool_lock = "free"
    /\ mv_recent = <<>>
    /\ rpc = "idle"
    /\ reloads = 1
    /\ new_pools = EmptyPools(0)
    /\ new_custom = {}
    /\ found = NothingFound
    /\ inflight = {}
    /\ play_cmd = NoCmd
    /\ pidx = NoIndex
    /\ bias = NoBias
    /\ seen = NoSeen
    /\ last_gen = [s \in Slots |-> 1]
    /\ returned = [s \in Slots |-> NoIndex]

\* One call of _pick(p, b) by the loop thread, with the record that
\* _do_play makes of a picked clip.
PickStep(p, b) ==
    /\ lock_free(pool_lock)
    /\ \E r \in pick(pools, last_idx, mv_recent, p, b) : BankPick(p, r)
    /\ UNCHANGED <<last_key_id, volVars, dynVars, lifeVars, dspVars, handler>>
    /\ UNCHANGED <<engineVars, pools, custom_sounds, pack_loader, pool_lock,
                   reloadVars, playVars>>

\* A _pick call on a pool that is not under observation.
PickCall(p, b) == PickStep(p, b) /\ UNCHANGED picked

\* Any sequence of _pick calls, with any bias, on a bank that is not
\* reloaded.
NextPick ==
    \E p \in PickSlots : \E b \in {NoBias} \cup (0..(MaxPick - 1)) :
        PickCall(p, b)

SpecPick == InitPick /\ [][NextPick]_vars

\* A _pick call on the pool under observation: its selection joins the
\* window of the last selections from that pool.
PickWatched(b) ==
    /\ PickStep(PIDX_NORMAL, b)
    /\ picked' = IF returned'[PIDX_NORMAL] # NoIndex
                  THEN selections(picked, returned'[PIDX_NORMAL])
                  ELSE picked

\* A bank whose pools hold 4 clips or more.
InitWindow == InitPick /\ pools[PIDX_NORMAL].n >= MV_RECENT_N

\* _pick calls on one pool, with any bias, between _pick calls on another
\* pool that go through the same anti-repetition history.
NextWindow ==
    \/ \E b \in {NoBias} \cup (0..(MaxPick - 1)) : PickWatched(b)
    \/ \E b \in {NoBias} \cup (0..(MaxPick - 1)) : PickCall(PIDX_NORMAL_R, b)

SpecWindow == InitWindow /\ [][NextWindow]_vars

\* ================================================================ claims
Playing(b) == {c \in Channels : b[c]}
Occ(s, i) == Cardinality({k \in 1..Len(s) : s[k].id = i})
Accepted(i) == i <= next_id /\ i \notin dropped
Retained(i) == Occ(queue, i) + Occ(delay_buf, i) + Occ(pending, i)

\* C1: the inbound command queue never holds more than its capacity.
C1_QueueBounded == Len(queue) <= QUEUE_MAXSIZE

C1_Witness == Len(queue) = QUEUE_MAXSIZE /\ pc = "drain" /\ dropped # {}

\* C2: enqueue_play on a full queue returns at once (the producer is back
\* outside the call, no signal sent) and leaves the queue as it was.
C2_DropOnFull ==
    [][\A p \in Producers :
         (EnqueuePut(p) /\ Len(queue) >= QUEUE_MAXSIZE)
            => (queue' = queue /\ ppc'[p] = "idle" /\ wakeup' = wakeup)]_vars

C2_Witness ==
    /\ dropped # {}
    /\ Len(queue) = QUEUE_MAXSIZE
    /\ \A p \in Producers : ppc[p] = "idle"

\* C3: every accepted command is, at any moment, either retained once (in
\* the queue, the delay buffer or the pending list) or dispatched once:
\* never dispatched twice, never lost.
C3_ExactlyOnce ==
    \A i \in CmdIds : Accepted(i) => Retained(i) + dispatched[i] = 1

C3_Witness ==
    /\ pc = "wait"
    /\ delay_buf # <<>>
    /\ loop_ctr = 0
    /\ \E i \in CmdIds : dispatched[i] = 1

C5_DistinctChannels ==
    \A t1, t2 \in Callers :
        (t1 # t2 /\ cpc[t1] = "got" /\ cpc[t2] = "got") => cch[t1] # cch[t2]

\* C6: with an Idle channel, acquire returns an Idle channel and the number
\* of Playing channels, stops nothing and leaves the cursor alone.
C6_AcquireIdle ==
    [][(CallerAcquire("a") /\ Playing(channels) # Channels)
          => /\ cch'["a"] \in Channels \ Playing(channels)
             /\ cn'["a"] = Cardinality(Playing(channels))
             /\ channels' = channels
             /\ steal_pos' = steal_pos]_vars

C6_Witness ==
    /\ cpc["a"] = "got"
    /\ ~stolen
    /\ cn["a"] = Polyphony - 1
    /\ steal_pos > 0

\* C7: with all channels Playing, acquire returns the channel at the cursor,
\* stopped, advances the cursor modulo N, reports N and stops no other.
C7_AcquireSteal ==
    [][(CallerAcquire("a") /\ Playing(channels) = Channels)
          => /\ cch'["a"] = steal_pos
             /\ Playing(channels') = Channels \ {steal_pos}
             /\ steal_pos' = (steal_pos + 1) % Polyphony
             /\ cn'["a"] = Polyphony]_vars

\* A steal of the last channel, after which the cursor is back at 0.
C7_Witness ==
    /\ cpc["a"] = "got"
    /\ stolen
    /\ cch["a"] = Polyphony - 1
    /\ steal_pos = 0
    /\ ~channels[cch["a"]]

\* C8 as stated: after the (N+1)th acquire, with no playback ended, the
\* channel was stolen and active_count() is N.
C8_Original ==
    (cpc["a"] = "got" /\ acquires = Polyphony + 1 /\ ~ended)
        => (stolen /\ active_count(channels) = Polyphony)

\* C8 amended: the (N+1)th acquire steals without blocking and reports N;
\* active_count() is N - 1 until the stolen channel is played, N after.
C8_NthPlusOne ==
    /\ (cpc["a"] = "idle" /\ acquires = Polyphony) => ENABLED CallerAcquire("a")
    /\ (cpc["a"] = "got" /\ acquires = Polyphony + 1 /\ ~ended)
          => /\ stolen
             /\ cn["a"] = Polyphony
             /\ active_count(channels) = Polyphony - 1
    /\ (cpc["a"] = "idle" /\ acquires = Polyphony + 1 /\ ~ended)
          => active_count(channels) = Polyphony

C8_Witness ==
    /\ cpc["a"] = "idle"
    /\ acquires = Polyphony + 1
    /\ ~ended
    /\ active_count(channels) = Polyphony

\* C9: active_count() and active_voices stay within 0..N.
C9_VoicesBounded ==
    /\ active_voices \in 0..Polyphony
    /\ active_count(channels) \in 0..Polyphony

C9_Witness == active_voices = Polyphony /\ Playing(channels) = Channels

\* C10 as stated: the stolen channel is the one started earliest.
C10_Original ==
    [][(CallerAcquire("a") /\ Playing(channels) = Channels)
          => cch'["a"] = Head(play_order)]_vars

\* C10 amended: the stolen channel is the one at the round-robin cursor; it
\* is the one started earliest as long as no playback has ended by itself.
C10_StealsAtCursor ==
    [][(CallerAcquire("a") /\ Playing(channels) = Channels)
          => /\ cch'["a"] = steal_pos
             /\ (~ended => cch'["a"] = Head(play_order))]_vars

C10_Witness ==
    /\ cpc["a"] = "got"
    /\ stolen
    /\ ended
    /\ play_order # <<>>
    /\ cch["a"] > Head(play_order)


\* C11: whenever _pick runs its locked lookup, the 8 pools and the
\* last-index trackers all belong to one generation, that of one reload
\* that swapped them in whole: no half-swapped bank is ever looked at.
C11_ReloadAtomic ==
    [][DoPlayPick
          => /\ \A s \in Slots : pools[s].gen = pools[pidx].gen
             /\ \A s \in Slots : last_gen[s] = pools[s].gen
             /\ pools[pidx].gen \in 1..reloads
             /\ pools[pidx].n \in {0, PoolSize}]_vars

\* A pick made from the old pools while a reload waits to swap.
C11_Witness ==
    /\ rpc = "lock"
    /\ pc = "acquire"
    /\ \E s \in Slots : returned[s] # NoIndex /\ pools[s].gen = reloads - 1

\* C12: no step of reload_sounds before the swap changes the live pools,
\* the custom bindings, the last-index trackers or the soundpack resolver.
C12_RebuildTouchesNothing ==
    [][ReloadRebuild
          => UNCHANGED <<pools, custom_sounds, last_idx, pack_loader>>]_vars

\* C13: the custom bindings a dispatch consults, the pool whose size gives
\* its pitch bias and the pool it picks from are of one generation.
C13_OneGeneration ==
    [][DoPlayPick
          => /\ seen.custom = pools[pidx].gen
             /\ seen.psize # -1 => seen.psize = pools[pidx].gen]_vars

\* C14: no step of reload_sounds changes the queue, the delay buffer or the
\* pending list, and no command in flight when a reload began has its
\* dispatch cut short by the end of the loop thread.
C14_InFlightDispatched ==
    /\ [][Reload => UNCHANGED <<queue, delay_buf, pending>>]_vars
    /\ [](pc = "dead" => play_cmd.id \notin inflight)

\* C15: the step that ends the swap's critical section leaves every
\* last-played index at -1, with the new pools in place; outside the
\* critical section a last-played index that is set belongs to the pool
\* now in its slot.
C15_LastIdxReset ==
    /\ [][ReloadSwapLast
             => /\ pool_lock = "reload"
                /\ \A s \in Slots : pools'[s].gen = reloads
                /\ \A s \in Slots : last_idx'[s] = NoIndex]_vars
    /\ [](pool_lock = "free"
             => \A s \in Slots :
                   last_idx[s] # NoIndex
                      => /\ last_gen[s] = pools[s].gen
                         /\ last_idx[s] < pools[s].n)

\* A reload completed after a clip had been picked.
C15_Witness ==
    /\ rpc = "idle"
    /\ reloads = 2
    /\ mv_recent # <<>>
    /\ \A s \in Slots : last_idx[s] = NoIndex /\ pools[s].gen = 2

\* C16: a reload that finds the key file (the mouse file) missing still
\* completes, with the 6 keyboard pools (the 2 mouse pools) empty; a dispatch
\* that picks from an empty pool acquires no channel and plays nothing.
C16_MissingFileEmptyPools ==
    /\ [][ReloadSwapLast
             => /\ rpc' = "idle"
                /\ ~found.key => \A s \in KeyboardSlots : pools'[s].n = 0
                /\ ~found.mouse => \A s \in MouseSlots : pools'[s].n = 0]_vars
    /\ [][(DoPlayPick /\ pools[pidx].n = 0)
             => (pc' = "process" /\ UNCHANGED <<channels, steal_pos>>)]_vars

\* After full pools, a reload without the key file; a key press then played
\* nothing.
C16_Witness ==
    /\ rpc = "idle"
    /\ reloads = 2
    /\ pools[PIDX_NORMAL].n = 0
    /\ pools[PIDX_MOUSE].n = PoolSize
    /\ pc = "process"
    /\ dispatched[1] = 1
    /\ custom_sounds.keys = {}
    /\ ~pack_loader.obj
    /\ \A c \in Channels : ~channels[c]

C18_DispatchNeverRaises == pc # "dead"

\* C19: a reload_sounds call that ends by an exception of a build has
\* changed neither the pools, nor the custom bindings, nor the last-index
\* trackers (nor the resolver).
C19_BuildErrorLeavesBank ==
    [][(ReloadBuild /\ rpc' = "raised")
          => UNCHANGED <<pools, custom_sounds, last_idx, pack_loader>>]_vars

\* A second reload raised; the bank of the first one is still in place.
C19_Witness ==
    /\ rpc = "raised"
    /\ reloads = 2
    /\ \A s \in Slots : pools[s] = [gen |-> 1, n |-> PoolSize]
    /\ custom_sounds.gen = 1

\* C20: on a pool of 2 clips or more, a _pick never returns the index the
\* previous _pick on that pool returned.
C20_NoImmediateRepeat ==
    [][\A p \in PickSlots : \A b \in {NoBias} \cup (0..(MaxPick - 1)) :
          (PickCall(p, b) /\ pools[p].n >= 2 /\ returned[p] # NoIndex)
             => returned'[p] # returned[p]]_vars

\* On a pool of 2 clips, a pick made when both clips were recent: every
\* random draw collided and the fallback chose.
C20_Witness ==
    \E p \in PickSlots :
        /\ pools[p].n = 2
        /\ mv_recent = << <<p, 0>>, <<p, 1>>, <<p, 0>>, <<p, 1>> >>

\* --------------------------------------------------------- update_volume
\* update_volume(level), first statement: the master volume is clamped.
UpdateVolumeBegin(level) ==
    /\ rpc = "idle"
    /\ new_vol' = level
    /\ volume' = clamp01(level)
    /\ rpc' = "vol_pools"
    /\ UNCHANGED <<picked, last_key_id, snd_volume, dynVars, lifeVars, dspVars, handler>>
    /\ UNCHANGED <<engineVars, bankVars, playVars, key_bindings, reloads,
                   new_pools, new_custom, found, inflight>>

\* update_volume, under _pool_lock: every clip of every pool and of every
\* custom binding is handed new_vol.
UpdateVolumePools ==
    /\ rpc = "vol_pools"
    /\ lock_free(pool_lock)
    /\ snd_volume' = [snd_volume EXCEPT
                        !.pools = Sound_set_volume(@, new_vol),
                        !.custom = Sound_set_volume(@, new_vol)]
    /\ rpc' = "vol_pack"
    /\ UNCHANGED <<picked, last_key_id, volume, new_vol, dynVars, lifeVars, dspVars, handler>>
    /\ UNCHANGED <<engineVars, bankVars, playVars, key_bindings, reloads,
                   new_pools, new_custom, found, inflight>>

\* update_volume, last statement: the soundpack clips, if a loader is set.
UpdateVolumePack ==
    /\ rpc = "vol_pack"
    /\ snd_volume' = IF pack_loader.obj
                      THEN [snd_volume EXCEPT
                                !.pack = Sound_set_volume(@, new_vol)]
                      ELSE snd_volume
    /\ rpc' = "idle"
    /\ UNCHANGED <<picked, last_key_id, volume, new_vol, dynVars, lifeVars, dspVars, handler>>
    /\ UNCHANGED <<engineVars, bankVars, playVars, key_bindings, reloads,
                   new_pools, new_custom, found, inflight>>

\* An engine constructed at any initial volume, its bank loaded with one
\* custom binding, with or without a soundpack.
InitVolume ==
    /\ InitEngine
    /\ \E v \in Volumes : InitMixAt(v, 0)
    /\ tracker = Tracker(0, 0)
    /\ \E loader \in {NoLoader, KeyPackLoader} : BankLoaded({"a"}, loader)

NextVolume ==
    \/ \E level \in Levels : UpdateVolumeBegin(level)
    \/ UpdateVolumePools
    \/ UpdateVolumePack

SpecVolume == InitVolume /\ [][NextVolume]_vars

\* C22: when update_volume(level) has returned, the master volume, the
\* volume of every pool clip and the volume of every custom clip are level
\* clamped to [0, 1].
C22_VolumeBroadcast ==
    (rpc = "idle" /\ new_vol # NoLevel) =>
        /\ volume = clamp01(new_vol)
        /\ snd_volume.pools = clamp01(new_vol)
        /\ snd_volume.custom = clamp01(new_vol)

\* ------------------------------------------------- the routes of _do_play
\* What the pool flow of _do_play writes: the last-index trackers, the
\* anti-repetition history, the last key of the MicroVariator, the slot
\* and the custom lookup.
poolFlow == <<last_idx, last_gen, returned, mv_recent, last_key_id, pidx,
              bias, seen>>

C24_BoundReleaseSilent ==
    [][(DoPlayCustom /\ play_cmd.is_release
          /\ play_cmd.key_id \in custom_sounds.keys)
         => (pc' = "process"
             /\ UNCHANGED <<poolFlow, channels, steal_pos, ch, n_active>>)]_vars

\* The first command, the release of a bound key, is dispatched and done:
\* every channel is idle, nothing was picked.
C24_Witness ==
    /\ pc = "process"
    /\ next_id = 1
    /\ dispatched[1] = 1
    /\ play_cmd = NoCmd
    /\ custom_sounds.keys # {}
    /\ ~pack_loader.obj
    /\ last_key_id = ""
    /\ \A c \in Channels : ~channels[c]
    /\ \A s \in Slots : returned[s] = NoIndex

\* C26: _pick on an empty pool returns (None, -1) and leaves the last
\* index of the slot as it is; the dispatch ends there: no channel is
\* acquired or stolen, nothing plays, nothing joins the anti-repetition
\* history.
C26_EmptyPoolSkips ==
    [][(DoPlayPick /\ pools[pidx].n = 0)
         => /\ returned'[pidx] = NoIndex
            /\ pc' = "process"
            /\ UNCHANGED <<last_idx, last_gen, mv_recent, channels, steal_pos,
                           ch, n_active>>]_vars

\* After a reload without the mouse file, a mouse click was dispatched: its
\* key was tracked, its pool was empty, every channel is idle.
C26_Witness ==
    /\ pc = "process"
    /\ next_id = 1
    /\ dispatched[1] = 1
    /\ play_cmd = NoCmd
    /\ last_key_id = "Button.left"
    /\ pools[PIDX_MOUSE].n = 0
    /\ returned[PIDX_MOUSE] = NoIndex
    /\ mv_recent = <<>>
    /\ \A c \in Channels : ~channels[c]

\* ------------------------------------------------------ the pool choice
\* The pool choice of _do_play for one command that has no soundpack clip
\* and no custom sound, with the rolling WPM base_wpm and the random draw.
SelectPool(cmd, base_wpm, draw) ==
    LET typed == ~cmd.is_release /\ ~cmd.is_mouse
        ema   == IF typed THEN ema_step(ema_wpm, base_wpm) ELSE ema_wpm
    IN /\ next_id < MaxSelect
       /\ next_id' = next_id + 1
       /\ play_cmd' = cmd
       /\ ema_wpm' = ema
       /\ pidx' = select_pool(cmd, typed /\ use_fast(ema, draw))
       /\ UNCHANGED <<picked, last_key_id, volVars, voice, tracker, lifeVars, dspVars, handler>>
       /\ UNCHANGED <<clock, running, queue, wakeup, ppc, dropped, ringVars,
                      histVars, loopVars, callVars, bankVars, reloadVars,
                      bias, seen>>

InitSelect == InitEngine /\ InitMix /\ BankLoaded({}, NoLoader)

NextSelect ==
    \E p \in Producers : \E k \in InputKinds(p) :
    \E key \in KeyIds(k.is_mouse) : \E base_wpm \in WpmValues :
    \E draw \in Draws :
        SelectPool([id |-> next_id + 1, key_id |-> key, is_mouse |-> k.is_mouse,
                    is_release |-> k.is_release], base_wpm, draw)

SpecSelect == InitSelect /\ [][NextSelect]_vars

\* C25: the pool slot is determined by the command: a release takes the
\* heavy or the normal release pool, a mouse press the middle or the left
\* pool, a key press the slow or the fast pool of its class; the fast pool
\* is never taken when the smoothed WPM is at or below the lower edge of the
\* band and always taken when it is at or above the upper edge.
C25_PoolByCommand ==
    play_cmd # NoCmd =>
        LET heavy == play_cmd.key_id \in HEAVY_KEYS
            typed == ~play_cmd.is_release /\ ~play_cmd.is_mouse
        IN /\ play_cmd.is_release
                => pidx = (IF heavy THEN PIDX_HEAVY_R ELSE PIDX_NORMAL_R)
           /\ (~play_cmd.is_release /\ play_cmd.is_mouse)
                => pidx = (IF play_cmd.key_id = MOUSE3_KEY
                           THEN PIDX_MOUSE3 ELSE PIDX_MOUSE)
           /\ typed => pidx \in (IF heavy THEN {PIDX_HEAVY, PIDX_HEAVY_F}
                                  ELSE {PIDX_NORMAL, PIDX_NORMAL_F})
           /\ (typed /\ ema_wpm <= band_lo)
                => pidx \in {PIDX_HEAVY, PIDX_NORMAL}
           /\ (typed /\ ema_wpm >= band_hi)
                => pidx \in {PIDX_HEAVY_F, PIDX_NORMAL_F}

\* A key press inside the band for which the draw chose the slow pool.
C25_Witness ==
    /\ play_cmd.key_id = "a"
    /\ ~play_cmd.is_release
    /\ ema_wpm > band_lo
    /\ ema_wpm < band_hi
    /\ pidx = PIDX_NORMAL

\* ------------------------------------------------------ the channel gain
\* Hold durations of a release, in milliseconds.
Durations == {30, REL_DUR_SHORT, 125, REL_DUR_LONG, 500}
\* Draws of rng.uniform(_MV_VOL_LOW, _MV_VOL_HIGH).
JitterDraws == {MV_VOL_LOW, ONE, MV_VOL_HIGH}
\* Values of _ema_wpm, in thousandths.
EmaValues == {0, REL_ATTEN_WPM * ONE, 90 * ONE, 150 * ONE}

\* 1.0 / k ** 0.5 in thousandths, rounded down, for every voice count k.
inv_sqrt ==
    [k \in 1..(MaxActive + 2) |->
        CHOOSE x \in 0..ONE :
            x * x * k <= ONE * ONE /\ (x + 1) * (x + 1) * k > ONE * ONE]

\* _do_play: eq_scale = max(0.42, 1.0 / (n_active + 1) ** 0.5)
eq_scale(n) ==
    IF inv_sqrt[n + 1] < EQ_FLOOR THEN EQ_FLOOR ELSE inv_sqrt[n + 1]

\* vol_scale: the duration scale of a release held for d milliseconds.
dur_scale(d) ==
    IF d < REL_DUR_SHORT THEN REL_SCALE_MIN
    ELSE IF d > REL_DUR_LONG THEN REL_SCALE_MAX
    ELSE REL_SCALE_MIN
         + ((d - REL_DUR_SHORT) * (REL_SCALE_MID - REL_SCALE_MIN))
               \div (REL_DUR_LONG - REL_DUR_SHORT)

\* vol_scale: wpm_atten for a smoothed WPM e (thousandths), 1.0 up to 60.
wpm_atten(e) ==
    IF e > REL_ATTEN_WPM * ONE
    THEN LET a == ONE - ((e - REL_ATTEN_WPM * ONE) * 2) \div ONE
         IN IF a < REL_ATTEN_MIN THEN REL_ATTEN_MIN ELSE a
    ELSE ONE

\* MicroVariator.vol_scale(is_release, duration, wpm) with the jitter draw
\* base: base for a press, base * release_boost for a release.
vol_scale(is_release, d, e, base) ==
    IF ~is_release THEN base
    ELSE LET boost == (MV_REL_BOOST_BASE * dur_scale(d)) \div ONE
             atten == (boost * wpm_atten(e)) \div ONE
         IN (base * atten) \div ONE

\* min(1.0, x)
min1(x) == IF x > ONE THEN ONE ELSE x

\* _do_play, pool flow: the volume set on the acquired channel.
GainPool(is_release, d, n, base) ==
    LET eq == eq_scale(n)
        mv == vol_scale(is_release, d, ema_wpm, base)
    IN /\ voice' = [source |-> "pool", is_release |-> is_release,
                    duration |-> d, n_active |-> n, base |-> base,
                    dur_scale |-> IF is_release THEN dur_scale(d) ELSE 0,
                    eq_scale |-> eq, mv_scale |-> mv,
                    vol |-> min1((((volume * eq) \div ONE) * mv) \div ONE)]
       /\ UNCHANGED <<picked, last_key_id, volVars, ema_wpm, tracker, lifeVars, dspVars, handler>>
       /\ UNCHANGED <<engineVars, bankVars, reloadVars, playVars>>

\* _do_play, soundpack clip: the volume set on the acquired channel; no
\* micro-variation is applied (a scale of 1.0).
GainPack(is_release, n) ==
    LET eq == eq_scale(n)
    IN /\ voice' = [source |-> "pack", is_release |-> is_release,
                    duration |-> 0, n_active |-> n, base |-> ONE,
                    dur_scale |-> 0, eq_scale |-> eq, mv_scale |-> ONE,
                    vol |-> min1((volume * eq) \div ONE)]
       /\ UNCHANGED <<picked, last_key_id, volVars, ema_wpm, tracker, lifeVars, dspVars, handler>>
       /\ UNCHANGED <<engineVars, bankVars, reloadVars, playVars>>

\* An engine at any master volume and any smoothed WPM, its bank loaded.
InitGain ==
    /\ InitEngine
    /\ \E v \in Volumes : \E e \in EmaValues : InitMixAt(v, e)
    /\ tracker = Tracker(0, 0)
    /\ BankLoaded({}, NoLoader)

\* The gain of any dispatch: a press (duration 0.0) or a release of any
\* hold, with any number of voices active.
NextGain ==
    \/ \E n \in 0..MaxActive : \E base \in JitterDraws :
           GainPool(FALSE, 0, n, base)
    \/ \E n \in 0..MaxActive : \E base \in JitterDraws :
       \E d \in Durations : GainPool(TRUE, d, n, base)
    \/ \E n \in 0..MaxActive : \E r \in BOOLEAN : GainPack(r, n)

SpecGain == InitGain /\ [][NextGain]_vars

\* C27: the volume set on the channel is master volume x equal-power scale
\* x micro-variation scale, the equal-power scale being
\* max(0.42, 1/sqrt(n+1)); for a release the product is multiplied by 0.80
\* in addition.
C27_GainProduct ==
    voice # NoVoice =>
        /\ voice.eq_scale = eq_scale(voice.n_active)
        /\ voice.vol =
              (((((volume * voice.eq_scale) \div ONE) * voice.mv_scale) \div ONE)
                  * (IF voice.is_release THEN (4 * ONE) \div 5 ELSE ONE))
              \div ONE

\* C28: at master volume 1.0, n_active + 1 <= 16 voices in phase, each a
\* clip of peak 0.25 at the gain max(0.42, 1/sqrt(n_active+1)), sum to a
\* peak of 1.0 at most.
C28_SummedPeak ==
    (voice # NoVoice /\ volume = ONE /\ voice.n_active + 1 <= 16) =>
        (voice.n_active + 1) * NORM_PEAK * voice.eq_scale <= ONE * ONE

\* C29: the duration scale of a release is 0.86 below 50 ms, 1.16 above
\* 200 ms and on the straight line between the two in between: 1.01 at
\* 125 ms.
C29_DurScaleLinear ==
    (voice.source = "pool" /\ voice.is_release) =>
        voice.dur_scale =
            IF voice.duration < REL_DUR_SHORT THEN REL_SCALE_MIN
            ELSE IF voice.duration > REL_DUR_LONG THEN REL_SCALE_MAX
            ELSE REL_SCALE_MIN
                 + ((voice.duration - REL_DUR_SHORT)
                        * (REL_SCALE_MAX - REL_SCALE_MIN))
                       \div (REL_DUR_LONG - REL_DUR_SHORT)

\* ------------------------------------------------------------ WpmTracker
\* Time between two keystrokes, in milliseconds.
Gaps == {2, 100, 1000}

\* deque(maxlen=window).append(t)
window_append(times, t) ==
    IF Len(times) >= WPM_WINDOW THEN Append(Tail(times), t)
    ELSE Append(times, t)

\* Mutant: the burst is not clamped.
burst_unclamped(b) == b

\* burst = max(0.7, min(1.3, burst))
burst_clamp(b) ==
    IF b < BURST_MIN THEN BURST_MIN ELSE IF b > BURST_MAX THEN BURST_MAX ELSE b

\* WpmTracker.burst_wpm on the samples times and the stored factor bf: the
\* pair returned (WPM in whole words per minute, factor in thousandths)
\* and the factor stored.
burst_wpm(times, bf) ==
    LET n     == Len(times)
        total == times[n] - times[1]
        base  == ((n - 1) * 12 * ONE) \div total
        span  == times[n] - times[n - (BURST_RECENT - 1)]
        rcnt  == IF span > MIN_ELAPSED
                 THEN ((BURST_RECENT - 1) * 12 * ONE) \div span ELSE base
        burst == burst_clamp((rcnt * ONE) \div (IF base < 1 THEN 1 ELSE base))
        nbf   == IF n >= BURST_SAMPLES
                 THEN (BURST_KEEP * bf + (ONE - BURST_KEEP) * burst) \div ONE
                 ELSE ONE
    IN IF n < BURST_MIN_SAMPLES THEN [ret |-> <<0, ONE>>, bf |-> bf]
       ELSE IF total < MIN_ELAPSED THEN [ret |-> <<0, ONE>>, bf |-> bf]
       ELSE [ret |-> <<base, nbf>>, bf |-> nbf]

\* WpmTracker.record(), gap milliseconds after the previous keystroke.
WpmRecord(gap) ==
    /\ tracker.calls < MaxWpmCalls
    /\ LET last == IF tracker.times = <<>> THEN 0
                   ELSE tracker.times[Len(tracker.times)]
       IN tracker' = [tracker EXCEPT
                         !.times = window_append(@, last + gap),
                         !.calls = @ + 1]
    /\ UNCHANGED <<picked, last_key_id, volVars, ema_wpm, voice, lifeVars, dspVars, handler>>
    /\ UNCHANGED <<engineVars, bankVars, reloadVars, playVars>>

\* WpmTracker.burst_wpm()
WpmBurst ==
    /\ tracker.calls < MaxWpmCalls
    /\ LET r == burst_wpm(tracker.times, tracker.burst_factor)
       IN tracker' = [tracker EXCEPT !.ret = r.ret, !.burst_factor = r.bf,
                                     !.calls = @ + 1]
    /\ UNCHANGED <<picked, last_key_id, volVars, ema_wpm, voice, lifeVars, dspVars, handler>>
    /\ UNCHANGED <<engineVars, bankVars, reloadVars, playVars>>

\* A tracker that has recorded no keystroke, 7 or 9 keystrokes at a steady
\* pace: 1 ms apart (an auto-repeat burst), or 100 ms apart.
InitWpm ==
    /\ InitEngine
    /\ InitMixAt(INITIAL_VOLUME, 0)
    /\ \E n \in {0, BURST_MIN_SAMPLES - 1, BURST_SAMPLES - 1} :
       \E gap \in {1, 100} : tracker = Tracker(n, gap)
    /\ BankLoaded({}, NoLoader)

NextWpm ==
    \/ \E gap \in Gaps : WpmRecord(gap)
    \/ WpmBurst

SpecWpm == InitWpm /\ [][NextWpm]_vars

thread_ended_nowait(p) == TRUE

\* self._thread.join(timeout=2.0) returns: the loop thread has ended. (The
\* timeout, 4000 ticks, lies beyond the horizon MaxTime of the clock.)
thread_ended(p) == p \in {"off", "dead"}

\* No clip is left to play: pools and bindings are empty, no soundpack.
bank_empty ==
    /\ \A s \in Slots : pools[s].n = 0
    /\ custom_sounds.keys = {}
    /\ ~pack_loader.obj

\* The frame of a step of stop() or of the end of _audio_loop.
stopFrame == <<picked, last_key_id, volVars, dynVars, play_cmd, pidx, bias,
               seen, key_bindings, reloads, new_pools, new_custom, found,
               inflight, last_idx, pool_lock, mv_recent, last_gen, returned,
               clock, ppc, next_id, dropped, steal_pos, histVars, callVars,
               now, loop_ctr, drained, pending, ch, n_active, dispatched,
               active_voices, dspVars, handler>>

\* start() while running: return.
StartNoop ==
    /\ rpc = "idle"
    /\ ~may_start(running)
    /\ UNCHANGED vars

\* start() by the control thread, outside stop().
StartCall == rpc = "idle" /\ Start

\* stop() while stopped: return.
StopNoop ==
    /\ rpc = "idle"
    /\ ~running
    /\ UNCHANGED vars

\* stop(): self._running = False
StopBegin ==
    /\ rpc = "idle"
    /\ running
    /\ running' = FALSE
    /\ rpc' = "stop_set"
    /\ UNCHANGED <<stopFrame, lifeVars, queue, wakeup, lost_wake, pc, delay_buf,
                   channels, pools, custom_sounds, pack_loader>>

\* stop(): self._wakeup.set()
StopSet ==
    /\ rpc = "stop_set"
    /\ wakeup' = TRUE
    /\ lost_wake' = (lost_wake \/ pc = "clear")
    /\ rpc' = "stop_join"
    /\ UNCHANGED <<stopFrame, lifeVars, running, queue, pc, delay_buf,
                   channels, pools, custom_sounds, pack_loader>>

\* stop(): self._thread.join(timeout=2.0); self._thread = None
StopJoin ==
    /\ rpc = "stop_join"
    /\ thread_ended(pc)
    /\ rpc' = "stop_channels"
    /\ UNCHANGED <<stopFrame, lifeVars, running, queue, wakeup, lost_wake, pc,
                   delay_buf, channels, pools, custom_sounds, pack_loader>>

\* stop(): pygame.mixer.fadeout(150); sleep; self._ring.stop_all()
StopChannels ==
    /\ rpc = "stop_channels"
    /\ channels' = [c \in Channels |-> FALSE]
    /\ rpc' = "stop_quit"
    /\ UNCHANGED <<stopFrame, lifeVars, running, queue, wakeup, lost_wake, pc,
                   delay_buf, pools, custom_sounds, pack_loader>>

\* stop(): pygame.mixer.quit()
StopQuit ==
    /\ rpc = "stop_quit"
    /\ mixer' = FALSE
    /\ rpc' = "stop_clear"
    /\ UNCHANGED <<stopFrame, threads, running, queue, wakeup, lost_wake, pc,
                   delay_buf, channels, pools, custom_sounds, pack_loader>>

\* stop(), under _pool_lock: every pool and the custom bindings are
\* cleared.
StopClear ==
    /\ rpc = "stop_clear"
    /\ lock_free(pool_lock)
    /\ pools' = [s \in Slots |-> [pools[s] EXCEPT !.n = 0]]
    /\ custom_sounds' = [custom_sounds EXCEPT !.keys = {}]
    /\ rpc' = "stop_pack"
    /\ UNCHANGED <<stopFrame, lifeVars, running, queue, wakeup, lost_wake, pc,
                   delay_buf, channels, pack_loader>>

\* stop(): the soundpack loader is unloaded and dropped; return.
StopPack ==
    /\ rpc = "stop_pack"
    /\ pack_loader' = NoLoader
    /\ rpc' = "idle"
    /\ UNCHANGED <<stopFrame, lifeVars, running, queue, wakeup, lost_wake, pc,
                   delay_buf, channels, pools, custom_sounds>>

Stop ==
    \/ StopBegin \/ StopSet \/ StopJoin \/ StopChannels \/ StopQuit
    \/ StopClear \/ StopPack

\* _audio_loop: while self._running is left; _delay_buf.clear()
LoopExit ==
    /\ pc = "top"
    /\ ~running
    /\ delay_buf' = <<>>
    /\ pc' = "flush"
    /\ UNCHANGED <<stopFrame, lifeVars, rpc, running, queue, wakeup, lost_wake,
                   channels, pools, custom_sounds, pack_loader>>

\* _audio_loop: while not self._queue.empty(): get_nowait(); then the
\* thread ends.
LoopFlush ==
    /\ pc = "flush"
    /\ \/ /\ queue # <<>>
          /\ queue' = Tail(queue)
          /\ UNCHANGED <<pc, threads>>
       \/ /\ queue = <<>>
          /\ pc' = "off"
          /\ threads' = threads - 1
          /\ UNCHANGED queue
    /\ UNCHANGED <<stopFrame, mixer, rpc, running, wakeup, lost_wake, delay_buf,
                   channels, pools, custom_sounds, pack_loader>>

\* The processing loop on a bank that stays as it is while the loop runs:
\* a dispatch goes on to a channel only if some clip is left.
StopProcess == LoopProcess /\ (pc' = "acquire" => ~bank_empty)

StopLoop ==
    \/ LoopTop \/ LoopDrain \/ StopProcess \/ LoopAcquire \/ LoopPlay
    \/ LoopHouse \/ LoopWait \/ LoopClear \/ LoopExit \/ LoopFlush

\* main.py: the engine with its bank loaded (one custom binding, a
\* soundpack), not yet started.
InitStop == InitEngine /\ InitMix /\ BankLoaded({"a"}, KeyPackLoader)

\* The control thread calls start() and stop() in any order, the input
\* threads call enqueue_play at any time.
NextStop ==
    \/ Tick
    \/ StartCall
    \/ StartNoop
    \/ StopNoop
    \/ Stop
    \/ \E p \in Producers : next_id < MaxStopCmds /\ EnqueuePut(p)
    \/ \E p \in Producers : EnqueueSet(p)
    \/ \E c \in Channels : ChannelEnd(c)
    \/ StopLoop

SpecStop == InitStop /\ [][NextStop]_vars

\* C21: on a pool of 4 clips or more, no index occurs 3 times among 4
\* consecutive selections of _pick from that pool, whatever is picked from
\* another pool in between.
C21_NoTripleInWindow ==
    \A i \in 0..(MaxPick - 1) :
        Cardinality({k \in 1..Len(picked) : picked[k] = i}) <= 2

\* Four consecutive selections that alternate between two clips.
C21_Witness ==
    /\ Len(picked) = MV_RECENT_N
    /\ picked[1] = picked[3]
    /\ picked[2] = picked[4]

C32_StoppedQueueEmpty ==
    (rpc = "idle" /\ ~running /\ ~mixer) => queue = <<>>

C33_HeldBounded == Len(queue) + Len(delay_buf) <= QUEUE_MAXSIZE

\* The commands of a sequence are in the order in which they were enqueued.
InArrivalOrder(s) == \A k \in 1..Len(s), l \in 1..Len(s) : k < l => s[k].id < s[l].id

\* C36: the loop dispatches a command only in an iteration whose sampled
\* time is not earlier than the command's not_before (and the sampled time
\* is never ahead of the clock); a command that is not yet due goes to the
\* pending list and is back in the delay buffer at the end of the
\* iteration; and the commands held by the loop keep their arrival order
\* across iterations, ahead of those still in the queue.
C36_NotBeforeRespected ==
    /\ [](now <= clock)
    /\ [][\A i \in CmdIds : dispatched'[i] # dispatched[i] =>
              /\ delay_buf # <<>>
              /\ Head(delay_buf).id = i
              /\ Head(delay_buf).not_before <= now]_vars
    /\ [][(LoopProcess /\ now < Head(delay_buf).not_before) =>
              /\ Occ(pending', Head(delay_buf).id) = 1
              /\ UNCHANGED dispatched]_vars
    /\ [][LoopHouse => \A k \in 1..Len(pending) :
                          Occ(delay_buf', pending[k].id) = 1]_vars
    /\ [](InArrivalOrder(pending \o delay_buf \o queue))

\* The loop waits with two commands held over that are not yet due, after
\* it has dispatched a later command that was due.
C36_Witness ==
    /\ pc = "wait"
    /\ Len(delay_buf) = 2
    /\ \E i \in CmdIds : dispatched[i] = 1 /\ delay_buf[1].id < i
    /\ \A k \in 1..2 : delay_buf[k].not_before > clock

\* The commands the engine holds and has not dispatched.
Held == pending \o delay_buf \o queue

\* C38: when the release of a key is dispatched, no press of the keyboard
\* that was enqueued before it (the press of that key) is still waiting:
\* a press is never dispatched after the release that followed it.
C38_PressBeforeRelease ==
    [][\A j \in CmdIds :
         (/\ dispatched'[j] # dispatched[j]
          /\ delay_buf # <<>>
          /\ Head(delay_buf).id = j
          /\ Head(delay_buf).is_release)
         => \A k \in 1..Len(Held) :
               ~(/\ Held[k].id < j
                 /\ ~Held[k].is_release
                 /\ ~Held[k].is_mouse)]_vars

\* ------------------------------------------------------------------ dsp.py
\* Cutoff frequencies are counted in units of 1/KeyStep of the resolution of
\* the cache key: round(fc_norm, 7) maps KeyStep neighbouring cutoffs to
\* one key.
round7(fc) == (fc + KeyStep \div 2) \div KeyStep

\* The k-th draw of np.random.RandomState(seed_base).uniform(): a fixed
\* sequence per seed, in DrawLevels steps.
uniform(seed_base, k) == (seed_base * (k + 1) + k) % DrawLevels

NoModifier == [on |-> FALSE, pitch_add |-> 0, reverb_decay_scale |-> 1]
Modifiers  == {NoModifier, [on |-> TRUE, pitch_add |-> 1, reverb_decay_scale |-> 2]}

\* presets.json: the fields build_variation reads of one preset.
Preset(hp, fc_min, fc_range, db_min, rand_p) ==
    [highpass_fc |-> hp,
     pitch |-> [min |-> 2, range |-> 1],
     random_pitch_range |-> rand_p,
     bass |-> [db_min |-> db_min, db_range |-> 1, fc_min |-> fc_min,
               fc_range |-> fc_range],
     presence |-> [db_min |-> 1, db_range |-> 0, fc |-> 9],
     reverb |-> [decay_min |-> 1, decay_range |-> 1, delay_min |-> 1,
                 delay_range |-> 0],
     random_volume_range |-> 1]

\* Three presets: the first two differ by a highpass cutoff below the
\* resolution of the cache key, the third draws a random pitch.
Presets ==
    {Preset(5, 7, 1, 0, 0), Preset(6, 7, 1, 0, 0), Preset(5, 11, 0, 1, 1)}

SeedBases == {42, 142}
Audios == {"key.wav", "mouse.wav"}

\* _get_sos: the computed coefficients are stored while the cache has room.
cache_put(cache, key, sos) ==
    IF Cardinality(cache) < SOS_CACHE_MAX
    THEN cache \cup {[key |-> key, sos |-> sos]}
    ELSE cache

\* _get_sos(order, fc_norm, btype): the coefficients stored under the
\* rounded key if there are any, else butter() of this cutoff. The
\* coefficients are named by the cutoff they were computed for.
get_sos(cache, fc, btype) ==
    LET key == <<2, round7(fc), btype>>
        hit == {e \in cache : e.key = key}
    IN IF hit # {}
       THEN [sos |-> (CHOOSE e \in hit : TRUE).sos, cache |-> cache]
       ELSE [sos |-> [fc |-> fc, btype |-> btype],
             cache |-> cache_put(cache, key, [fc |-> fc, btype |-> btype])]

\* bass_boost / presence_boost with gain_db <= 0: the audio is returned as
\* it is.
NoFilter == [fc |-> 0, btype |-> "none"]

max2(a, b) == IF a >= b THEN a ELSE b

\* build_variation: the parameters drawn from the generator (its k draws
\* so far), the filters taken from the cache, and the rendered clip: the
\* DSP chain applied to the audio, named by what went into it.
build_variation(audio, p, seed_base, k, fast, cache) ==
    LET seed    == uniform(seed_base, k)
        k1      == k + 1
        drawp   == p.random_pitch_range > 0
        pitch0  == p.pitch.min + seed * p.pitch.range
        pitch1  == IF drawp
                   THEN pitch0 + (uniform(seed_base, k1) - DrawLevels \div 2)
                                 * p.random_pitch_range
                   ELSE pitch0
        k2      == IF drawp THEN k1 + 1 ELSE k1
        pitch2  == IF fast.on THEN pitch1 + fast.pitch_add ELSE pitch1
        pitch   == max2(1, pitch2)
        bass_db == p.bass.db_min + seed * p.bass.db_range
        bass_fc == p.bass.fc_min + seed * p.bass.fc_range
        pres_db == p.presence.db_min + seed * p.presence.db_range
        rev_dec == (p.reverb.decay_min + seed * p.reverb.decay_range)
                   * (IF fast.on THEN fast.reverb_decay_scale ELSE 1)
        rev_del == p.reverb.delay_min + seed * p.reverb.delay_range
        vol     == uniform(seed_base, k2) * p.random_volume_range
        hp      == get_sos(cache, p.highpass_fc, "high")
        bs      == IF bass_db > 0 THEN get_sos(hp.cache, bass_fc, "low")
                   ELSE [sos |-> NoFilter, cache |-> hp.cache]
        pr      == IF pres_db > 0 THEN get_sos(bs.cache, p.presence.fc, "high")
                   ELSE [sos |-> NoFilter, cache |-> bs.cache]
    IN [data  |-> [audio |-> audio, pitch |-> pitch, highpass |-> hp.sos,
                   bass |-> <<bs.sos, bass_db>>, presence |-> <<pr.sos, pres_db>>,
                   reverb |-> <<rev_dec, rev_del>>, vol_jitter |-> vol],
        k     |-> k2 + 1,
        cache |-> pr.cache]

\* build_pool: one generator seeded with seed_base, pool_size variations
\* in sequence.
RECURSIVE build_pool_from(_, _, _, _, _, _, _)
build_pool_from(audio, p, seed_base, k, fast, cache, n) ==
    IF n = 0 THEN [pool |-> <<>>, cache |-> cache]
    ELSE LET v    == build_variation(audio, p, seed_base, k, fast, cache)
             rest == build_pool_from(audio, p, seed_base, v.k, fast, v.cache, n - 1)
         IN [pool |-> <<v.data>> \o rest.pool, cache |-> rest.cache]

build_pool(audio, p, seed_base, fast, cache) ==
    build_pool_from(audio, p, seed_base, 0, fast, cache, PoolSize)

\* One call of build_pool; the call and its result are recorded.
BuildPool(audio, p, seed_base, fast) ==
    /\ Cardinality(builds) < MaxBuilds
    /\ LET r == build_pool(audio, p, seed_base, fast, sos_cache) IN
       /\ sos_cache' = r.cache
       /\ builds' = builds \cup {[audio |-> audio, preset |-> p,
                                  seed_base |-> seed_base, fast |-> fast,
                                  pool |-> r.pool]}
    /\ UNCHANGED <<engineVars, bankVars, reloadVars, playVars, picked,
                   last_key_id, volVars, dynVars, lifeVars, handler>>

\* clear_filter_cache()
ClearFilterCache ==
    /\ sos_cache # {}
    /\ sos_cache' = {}
    /\ UNCHANGED <<engineVars, bankVars, reloadVars, playVars, picked,
                   last_key_id, volVars, dynVars, lifeVars, builds, handler>>

InitDsp == InitEngine /\ InitMix /\ BankLoaded({}, NoLoader)

NextDsp ==
    \/ \E a \in Audios, p \in Presets, s \in SeedBases, f \in Modifiers :
          BuildPool(a, p, s, f)
    \/ ClearFilterCache

SpecDsp == InitDsp /\ [][NextDsp]_vars

\* C34: two build_pool runs with the same base audio, preset, modifier and
\* seed_base return identical pools, entry by entry (build_variation is
\* deterministic given its arguments and the generator state).
C34_Deterministic ==
    \A r1 \in builds, r2 \in builds :
        (/\ r1.audio = r2.audio
         /\ r1.preset = r2.preset
         /\ r1.seed_base = r2.seed_base
         /\ r1.fast = r2.fast)
        => r1.pool = r2.pool

\* ------------------------------------------- release pools of reload_sounds
\* p[key_class]["release"]: the subscript raises KeyError when the preset
\* has no release sub-config.
release_subscript_raises(cfg) == cfg = "missing"

\* build_release_pool: [] unless release_cfg.get("enabled", False), else
\* pool_size clips.
build_release_pool(cfg, g) ==
    IF cfg = "enabled" THEN [gen |-> g, n |-> PoolSize] ELSE [gen |-> g, n |-> 0]

\* The pools call g of reload_sounds builds with both sound files present
\* and the release sub-configs rc.
pools_with_release(rc, g) ==
    [s \in Slots |->
        IF s = PIDX_NORMAL_R THEN build_release_pool(rc.normal, g)
        ELSE IF s = PIDX_HEAVY_R THEN build_release_pool(rc.heavy, g)
        ELSE [gen |-> g, n |-> PoolSize]]

\* reload_sounds with both sound files present, up to the mode selection:
\* the keyboard section builds the normal pools and the normal release
\* pool, then the heavy pools and the heavy release pool; the mouse section
\* follows. An exception leaves reload_sounds with new_pools, a local,
\* lost.
ReloadPresets ==
    /\ rpc \in {"idle", "raised"}
    /\ reloads < MaxBankOps
    /\ reloads' = reloads + 1
    /\ new_custom' = {}
    /\ \E rn \in ReleaseCfgs : \E rh \in ReleaseCfgs :
          LET rc == [normal |-> rn, heavy |-> rh] IN
          /\ found' = [key |-> TRUE, mouse |-> TRUE, loadable |-> {},
                       release |-> rc]
          /\ \/ /\ release_subscript_raises(rn) \/ release_subscript_raises(rh)
                /\ rpc' = "raised"
                /\ UNCHANGED <<new_pools, inflight>>
             \/ /\ ~release_subscript_raises(rn)
                /\ ~release_subscript_raises(rh)
                /\ new_pools' = pools_with_release(rc, reloads + 1)
                /\ inflight' = InFlightIds
                /\ rpc' = "bind"
    /\ UNCHANGED mixVars
    /\ UNCHANGED <<engineVars, playVars, bankVars, key_bindings>>

\* main.py: the engine is constructed; reload_sounds is called next, and
\* again whenever the user changes the bindings.
InitRelease == Init

NextRelease ==
    \/ ReloadPresets
    \/ ReloadBind
    \/ ReloadCustom
    \/ ReloadSwap

SpecRelease == InitRelease /\ [][NextRelease]_vars

\* C35: a reload with a preset that lacks the release sub-config of a key
\* class does not fail, and the release pool it builds for that class is
\* empty, as with enabled = false.
C35_MissingReleaseIsDisabled ==
    \A c \in {"normal", "heavy"} :
        found.release[c] = "missing" =>
            /\ rpc # "raised"
            /\ new_pools[IF c = "normal" THEN PIDX_NORMAL_R ELSE PIDX_HEAVY_R].n = 0

\* -------------------------------------------------------- input_handler.py
\* get_repeat(): the user's repeat mode is off.
RepeatMode == FALSE

\* The keys with an entry in _press_times.
Timed(pt) == {k \in Keys : pt[k] # NoTime}

\* on_press, memory guard: the oldest entries are dropped from _press_times.
RECURSIVE drop_oldest(_, _)
drop_oldest(pt, n) ==
    IF n = 0 \/ Timed(pt) = {} THEN pt
    ELSE LET old == CHOOSE k \in Timed(pt) : \A l \in Timed(pt) : pt[k] <= pt[l]
         IN drop_oldest([pt EXCEPT ![old] = NoTime], n - 1)

\* on_press(key) of the keyboard listener, handler running and not
\* customizing: the OS auto-repeat guard, the repeat suppression, the
\* overflow guard, the press time, the memory guard, then the key is
\* pressed, becomes the last key and its press command is enqueued.
on_press(h, name) ==
    LET prev_t == h.press_times[name] IN
    IF prev_t # NoTime /\ h.now - prev_t < OS_REPEAT_GUARD THEN h
    ELSE IF ~RepeatMode /\ name \in h.pressed THEN h
    ELSE LET overflow == Cardinality(h.pressed) >= MAX_PRESSED
             pressed1 == IF overflow THEN {} ELSE h.pressed
             times1   == IF overflow THEN [k \in Keys |-> NoTime]
                         ELSE h.press_times
             times2   == [times1 EXCEPT ![name] = h.now]
             times3   == IF Cardinality(Timed(times2)) > MAX_PRESS_TIMES
                         THEN drop_oldest(times2, GUARD_DROP)
                         ELSE times2
         IN [h EXCEPT !.pressed = pressed1 \cup {name},
                      !.press_times = times3,
                      !.last_key = name,
                      !.enqueued[name] = @ + 1]

\* on_release(key): the key leaves _pressed and _press_times.
on_release(h, name) ==
    [h EXCEPT !.pressed = @ \ {name}, !.press_times[name] = NoTime]

\* One round of _stuck_key_watchdog: every key whose press time is more
\* than _STUCK_KEY_SECS back is released.
watchdog(h) ==
    LET stale == {k \in Timed(h.press_times) :
                     h.now - h.press_times[k] > STUCK_KEY_SECS}
    IN [h EXCEPT !.pressed = @ \ stale,
                 !.press_times = [k \in Keys |-> IF k \in stale THEN NoTime
                                                 ELSE @[k]]]

inputFrame == <<engineVars, bankVars, reloadVars, playVars, picked,
                last_key_id, volVars, dynVars, lifeVars, dspVars>>

\* time.monotonic() advances.
InputTick ==
    /\ handler.now < MaxInputTime
    /\ handler' = [handler EXCEPT !.now = @ + 1]
    /\ UNCHANGED inputFrame

\* The user presses a key down: the OS delivers its press event. The count
\* of press commands of the key starts again with this hold.
KeyDown(k) ==
    /\ k \notin handler.held
    /\ handler' = on_press([handler EXCEPT !.held = @ \cup {k},
                                           !.repeating = k,
                                           !.enqueued[k] = 0], k)
    /\ UNCHANGED inputFrame

\* The key pressed last is still down: the OS repeats its press event.
AutoRepeat ==
    /\ handler.repeating \in handler.held
    /\ handler.enqueued[handler.repeating] < MaxPresses
    /\ handler' = on_press(handler, handler.repeating)
    /\ UNCHANGED inputFrame

\* The user lets a key go: the OS delivers its release event.
KeyUp(k) ==
    /\ k \in handler.held
    /\ handler' = on_release([handler EXCEPT !.held = @ \ {k}], k)
    /\ UNCHANGED inputFrame

\* The watchdog thread wakes up.
Watchdog ==
    /\ handler' = watchdog(handler)
    /\ UNCHANGED inputFrame

InitInput == InitEngine /\ InitMix /\ BankLoaded({}, NoLoader)

NextInput ==
    \/ InputTick
    \/ \E k \in Keys : KeyDown(k)
    \/ AutoRepeat
    \/ \E k \in Keys : KeyUp(k)
    \/ Watchdog

SpecInput == InitInput /\ [][NextInput]_vars

\* C37: with repeat mode off, a key that is physically held has exactly one
\* press command enqueued for this hold, whatever the watchdog, the overflow
\* guard and the other keys do in between.
C37_OnePressPerHold ==
    \A k \in handler.held : handler.enqueued[k] = 1

\* ------------------------------------------- a reload with another pool size
\* reload_sounds with both sound files present and cfg["engine"]["pool_size"]
\* at m, up to the mode selection: every pool is built with m clips.
ReloadSized ==
    /\ rpc \in {"idle", "raised"}
    /\ running
    /\ reloads + next_id < MaxBankOps
    /\ reloads' = reloads + 1
    /\ new_custom' = {}
    /\ found' = [key |-> TRUE, mouse |-> TRUE, loadable |-> {},
                 release |-> ReleaseOn]
    /\ \E m \in 0..MaxPick :
          new_pools' = [s \in Slots |-> [gen |-> reloads + 1, n |-> m]]
    /\ inflight' = InFlightIds
    /\ rpc' = "bind"
    /\ UNCHANGED mixVars
    /\ UNCHANGED <<engineVars, playVars, bankVars, key_bindings>>

\* The loop thread dispatching (classic mode, no key bound) while the
\* control thread reloads with another pool size.
NextStale ==
    \/ StartAfterReload
    \/ DispatchCall
    \/ DoPlayCheck
    \/ DoPlayCustom
    \/ DoPlayPsize
    \/ DoPlayPick
    \/ LoopAcquire
    \/ LoopPlay
    \/ ReloadSized
    \/ ReloadBind
    \/ ReloadCustom
    \/ ReloadSwap

SpecStale == InitPick /\ [][NextStale]_vars

====
